---- MODULE Spec2Model ----
(***************************************************************************)
(* Model of the review-analysis route handler                              *)
(*   src/src/app/api/analyze/route.ts  (POST)                              *)
(* and of the keyword cards of the page that renders its result            *)
(*   src/src/app/pages_back.tsx  (Home: sortedPositive, sortedNegative)    *)
(*                                                                         *)
(* Text is modelled as a sequence of chunks whose concatenation is the     *)
(* JavaScript string: every punctuation character, blank, line feed,       *)
(* carriage return, tab and digit is a chunk of its own, and a maximal run *)
(* of letters is one chunk (a word).  The words of the input alphabet are  *)
(* those spelled out by Letters; none contains a brace, a quote, a         *)
(* backslash or a digit, and "e", "E" and "Infinity" are not among them    *)
(* (no exponents, no infinities).  A numeral has at most 9 digits.  With   *)
(* Letters the regular expression, JSON.parse with the text of its         *)
(* SyntaxError, and the string-to-number conversion are modelled character *)
(* for character.                                                          *)
(*                                                                         *)
(* JavaScript values are tagged records:                                   *)
(*   [t |-> "undefined"]  [t |-> "null"]  [t |-> "bool", b |-> ...]        *)
(*   [t |-> "num", n |-> numerator, d |-> denominator]   (d > 0, reduced)  *)
(*   [t |-> "nan"]                       (the number NaN)                  *)
(*   [t |-> "str", s |-> chunks]                                           *)
(*   [t |-> "arr", a |-> sequence of values]                               *)
(*   [t |-> "obj", o |-> sequence of [k |-> chunks, v |-> value]]          *)
(* Numbers are exact rationals; floating-point rounding is not modelled.   *)
(***************************************************************************)
EXTENDS Integers, Sequences, FiniteSets, TLC

----------------------------------------------------------------------------
(* JavaScript values *)

Undefined == [t |-> "undefined"]
Null == [t |-> "null"]
NaN == [t |-> "nan"]
Bool(b) == [t |-> "bool", b |-> b]
Str(s) == [t |-> "str", s |-> s]
Arr(a) == [t |-> "arr", a |-> a]
Obj(o) == [t |-> "obj", o |-> o]

Abs(x) == IF x < 0 THEN -x ELSE x

RECURSIVE Gcd(_, _)
Gcd(a, b) == IF b = 0 THEN a ELSE Gcd(b, a % b)

\* the number n/d (d # 0) as a reduced fraction with a positive denominator
Reduced(n, d, g) == [t |-> "num", n |-> n \div g, d |-> d \div g]

Num(n, d) ==
    IF d < 0 THEN Reduced(-n, -d, Gcd(Abs(n), Abs(d))) ELSE Reduced(n, d, Gcd(Abs(n), Abs(d)))

\* typeof v === 'number'
IsNumberType(v) == v.t \in {"num", "nan"}

\* isNaN(v) for a v of type number
IsNaN(v) == v.t = "nan"

\* !v  (ToBoolean negated)
Falsy(v) ==
    \/ v.t \in {"undefined", "null", "nan"}
    \/ v.t = "bool" /\ ~v.b
    \/ v.t = "num" /\ v.n = 0
    \/ v.t = "str" /\ v.s = <<>>

\* Array.isArray(v)
IsArray(v) == v.t = "arr"

IsDigit(c) == c \in {"0", "1", "2", "3", "4", "5", "6", "7", "8", "9"}

DigitVal(c) ==
    CASE c = "0" -> 0 [] c = "1" -> 1 [] c = "2" -> 2 [] c = "3" -> 3
      [] c = "4" -> 4 [] c = "5" -> 5 [] c = "6" -> 6 [] c = "7" -> 7
      [] c = "8" -> 8 [] c = "9" -> 9

\* the value of the digits t[i] .. t[j-1]
RECURSIVE NatOf(_, _, _)
NatOf(t, i, j) == IF j <= i THEN 0 ELSE NatOf(t, i, j - 1) * 10 + DigitVal(t[j - 1])

\* a property key that is an array index: a decimal numeral without a leading
\* zero (below 2^32 - 1, as every numeral of at most 9 digits is)
IsArrayIndex(key) ==
    /\ key # <<>>
    /\ Len(key) <= 9
    /\ \A i \in 1..Len(key) : IsDigit(key[i])
    /\ (Len(key) = 1 \/ key[1] # "0")

RECURSIVE IndexOfKey(_, _, _)
IndexOfKey(o, k, i) ==
    IF i > Len(o) THEN 0
    ELSE IF o[i].k = k THEN i
    ELSE IndexOfKey(o, k, i + 1)

\* v.k : property read; a missing own property reads as undefined
MemberValueAt(o, i) == IF i = 0 THEN Undefined ELSE o[i].v

Get(v, k) == IF v.t # "obj" THEN Undefined ELSE MemberValueAt(v.o, IndexOfKey(v.o, k, 1))

\* o.k = x on the member list o: an existing property keeps its position; a
\* new one goes to its place in the property order: the array-index keys
\* first, ascending, then the other keys in the order they were added
RECURSIVE PlaceOf(_, _, _)
PlaceOf(o, k, i) ==
    IF i > Len(o) THEN i
    ELSE IF ~IsArrayIndex(k) THEN Len(o) + 1
    ELSE IF ~IsArrayIndex(o[i].k) THEN i
    ELSE IF NatOf(o[i].k, 1, Len(o[i].k) + 1) > NatOf(k, 1, Len(k) + 1) THEN i
    ELSE PlaceOf(o, k, i + 1)

InsertAt(seq, i, x) == SubSeq(seq, 1, i - 1) \o <<x>> \o SubSeq(seq, i, Len(seq))

PutAt(o, i, k, x) ==
    IF i = 0 THEN InsertAt(o, PlaceOf(o, k, 1), [k |-> k, v |-> x])
    ELSE [o EXCEPT ![i] = [k |-> k, v |-> x]]

Put(o, k, x) == PutAt(o, IndexOfKey(o, k, 1), k, x)

Has(v, k) == v.t = "obj" /\ IndexOfKey(v.o, k, 1) # 0

----------------------------------------------------------------------------
(* Lexical helpers *)

\* the white space of JSON and of trim(), as far as the alphabet has it
IsWhitespace(c) == c \in {" ", "\n", "\r", "\t"}

RECURSIVE SkipWs(_, _)
SkipWs(t, i) == IF i <= Len(t) /\ IsWhitespace(t[i]) THEN SkipWs(t, i + 1) ELSE i

RECURSIVE DigitsEnd(_, _)
DigitsEnd(t, i) == IF i <= Len(t) /\ IsDigit(t[i]) THEN DigitsEnd(t, i + 1) ELSE i

DigitChunk(d) == <<"0", "1", "2", "3", "4", "5", "6", "7", "8", "9">>[d + 1]

RECURSIVE NatToString(_)
NatToString(n) ==
    IF n < 10 THEN <<DigitChunk(n)>>
    ELSE NatToString(n \div 10) \o <<DigitChunk(n % 10)>>

RECURSIVE Pow10(_)
Pow10(k) == IF k = 0 THEN 1 ELSE 10 * Pow10(k - 1)

RECURSIVE IndexFrom(_, _, _)
IndexFrom(t, c, i) ==
    IF i > Len(t) THEN 0
    ELSE IF t[i] = c THEN i
    ELSE IndexFrom(t, c, i + 1)

RECURSIVE LastIndexOf(_, _, _)
LastIndexOf(t, c, i) ==
    IF i < 1 THEN 0
    ELSE IF t[i] = c THEN i
    ELSE LastIndexOf(t, c, i - 1)

\* the characters of a chunk: a word of the alphabet letter by letter, any
\* other chunk is one character
Letters(w) ==
    CASE w = "Sure" -> <<"S", "u", "r", "e">>
      [] w = "Thanks" -> <<"T", "h", "a", "n", "k", "s">>
      [] w = "cannot" -> <<"c", "a", "n", "n", "o", "t">>
      [] w = "help" -> <<"h", "e", "l", "p">>
      [] w = "html" -> <<"h", "t", "m", "l">>
      [] w = "or" -> <<"o", "r">>
      [] w = "positive" -> <<"p", "o", "s", "i", "t", "i", "v", "e">>
      [] w = "negative" -> <<"n", "e", "g", "a", "t", "i", "v", "e">>
      [] w = "neutral" -> <<"n", "e", "u", "t", "r", "a", "l">>
      [] w = "null" -> <<"n", "u", "l", "l">>
      [] w = "true" -> <<"t", "r", "u", "e">>
      [] w = "false" -> <<"f", "a", "l", "s", "e">>
      [] w = "totalCount" -> <<"t", "o", "t", "a", "l", "C", "o", "u", "n", "t">>
      [] w = "positiveCount" -> <<"p", "o", "s", "i", "t", "i", "v", "e", "C", "o", "u", "n", "t">>
      [] w = "negativeCount" -> <<"n", "e", "g", "a", "t", "i", "v", "e", "C", "o", "u", "n", "t">>
      [] w = "keywords" -> <<"k", "e", "y", "w", "o", "r", "d", "s">>
      [] w = "keyword" -> <<"k", "e", "y", "w", "o", "r", "d">>
      [] w = "sentiment" -> <<"s", "e", "n", "t", "i", "m", "e", "n", "t">>
      [] w = "sentiments" -> <<"s", "e", "n", "t", "i", "m", "e", "n", "t", "s">>
      [] w = "count" -> <<"c", "o", "u", "n", "t">>
      [] w = "reviewIndices" -> <<"r", "e", "v", "i", "e", "w", "I", "n", "d", "i", "c", "e", "s">>
      [] w = "aspect" -> <<"a", "s", "p", "e", "c", "t">>
      [] w = "labels" -> <<"l", "a", "b", "e", "l", "s">>
      [] w = "design" -> <<"d", "e", "s", "i", "g", "n">>
      [] w = "price" -> <<"p", "r", "i", "c", "e">>
      [] w = "delivery" -> <<"d", "e", "l", "i", "v", "e", "r", "y">>
      [] w = "screen" -> <<"s", "c", "r", "e", "e", "n">>
      [] w = "box" -> <<"b", "o", "x">>
      [] w = "none" -> <<"n", "o", "n", "e">>
      [] w = "length" -> <<"l", "e", "n", "g", "t", "h">>
      [] w = "review" -> <<"r", "e", "v", "i", "e", "w">>
      [] w = "reviews" -> <<"r", "e", "v", "i", "e", "w", "s">>
      [] w = "great" -> <<"g", "r", "e", "a", "t">>
      [] w = "phone" -> <<"p", "h", "o", "n", "e">>
      [] w = "bad" -> <<"b", "a", "d">>
      [] w = "error" -> <<"e", "r", "r", "o", "r">>
      [] w = "locale" -> <<"l", "o", "c", "a", "l", "e">>
      [] w = "en" -> <<"e", "n">>
      [] w = "ko" -> <<"k", "o">>
      [] w = "KO" -> <<"K", "O">>
      [] w = "abc" -> <<"a", "b", "c">>
      [] w = "ff" -> <<"f", "f">>
      [] w = "nul" -> <<"n", "u", "l">>
      [] w = "tru" -> <<"t", "r", "u">>
      [] w = "nullable" -> <<"n", "u", "l", "l", "a", "b", "l", "e">>
      [] w = "no" -> <<"n", "o">>
      [] w = "yes" -> <<"y", "e", "s">>
      [] w = "NaN" -> <<"N", "a", "N">>
      [] w = "undefined" -> <<"u", "n", "d", "e", "f", "i", "n", "e", "d">>
      [] w = "object" -> <<"o", "b", "j", "e", "c", "t">>
      [] w = "Object" -> <<"O", "b", "j", "e", "c", "t">>
      [] OTHER -> <<w>>

\* the characters of a text
RECURSIVE Explode(_)
Explode(t) == IF t = <<>> THEN <<>> ELSE Letters(Head(t)) \o Explode(Tail(t))

----------------------------------------------------------------------------
(* JSON.parse *)

\* a SyntaxError: why names the message, the parser stopped `off` characters
\* into chunk `at` (at = Len(t) + 1 at the end of the text)
Fail(why, at, off) == [ok |-> FALSE, why |-> why, at |-> at, off |-> off]
\* a value, and where the parser goes on: `off` characters into chunk `next`
Ok(v, next) == [ok |-> TRUE, v |-> v, next |-> next, off |-> 0]
OkInside(v, next, off) == [ok |-> TRUE, v |-> v, next |-> next, off |-> off]

\* the token at chunk i is not the one expected and no message names what was
\* expected: the error is worded after the kind of token found
Unexpected(t, i) ==
    IF i > Len(t) THEN Fail("eos", i, 0)
    ELSE IF t[i] = "-" \/ IsDigit(t[i]) THEN Fail("number", i, 0)
    ELSE IF t[i] = "\"" THEN Fail("string", i, 0)
    ELSE Fail("token", i, 0)

FirstLetter(w) == Letters(w)[1]

\* number := -? (0 | [1-9][0-9]*) (. [0-9]+)?   and a letter e or E after it
\* starts an exponent (the alphabet has no complete one)
NumberExponent(t, v, e) ==
    IF e <= Len(t) /\ FirstLetter(t[e]) \in {"e", "E"} /\ Len(Letters(t[e])) > 1
    THEN Fail("exponent", e, 1)
    ELSE Ok(v, e)

\* the fraction t[ie+1] .. t[fe-1] after the integer part t[s] .. t[ie-1]
NumberFraction(t, s, ie, fe, sign) ==
    IF fe = ie + 1 THEN Fail("fraction", fe, 0)
    ELSE NumberExponent(t,
             Num(sign * (NatOf(t, s, ie) * Pow10(fe - ie - 1) + NatOf(t, ie + 1, fe)),
                 Pow10(fe - ie - 1)), fe)

NumberInteger(t, s, ie, sign) ==
    IF ie = s THEN Fail("minus", s, 0)
    ELSE IF t[s] = "0" /\ ie <= Len(t) /\ IsDigit(t[ie]) THEN Fail("number", ie, 0)
    ELSE IF ie <= Len(t) /\ t[ie] = "."
         THEN NumberFraction(t, s, ie, DigitsEnd(t, ie + 1), sign)
    ELSE NumberExponent(t, Num(sign * NatOf(t, s, ie), 1), ie)

NumberDigits(t, s, sign) ==
    NumberInteger(t, s, IF s <= Len(t) /\ t[s] = "0" THEN s + 1 ELSE DigitsEnd(t, s), sign)

ParseNumber(t, i) ==
    IF t[i] = "-" THEN NumberDigits(t, i + 1, -1) ELSE NumberDigits(t, i, 1)

\* string := " chars "   (no escapes in the alphabet): the scan stops at the
\* closing quote or at a control character
RECURSIVE StringEnd(_, _)
StringEnd(t, j) ==
    IF j > Len(t) THEN j
    ELSE IF t[j] = "\"" \/ t[j] \in {"\n", "\r", "\t"} THEN j
    ELSE StringEnd(t, j + 1)

StringUpTo(t, i, j) ==
    IF j > Len(t) THEN Fail("unterminated", j, 0)
    ELSE IF t[j] # "\"" THEN Fail("control", j, 0)
    ELSE Ok(Str(SubSeq(t, i + 1, j - 1)), j + 1)

ParseString(t, i) == StringUpTo(t, i, StringEnd(t, i + 1))

\* the first place from j on where the letters of a word differ from the
\* literal, Len(lit) + 1 if the literal is a prefix of them
RECURSIVE Mismatch(_, _, _)
Mismatch(letters, lit, j) ==
    IF j > Len(lit) THEN j
    ELSE IF j > Len(letters) \/ letters[j] # lit[j] THEN j
    ELSE Mismatch(letters, lit, j + 1)

\* null, true or false is read letter by letter; m is the place of the first
\* mismatch within the word t[i], or after it
LiteralUpTo(t, i, v, lit, m) ==
    IF m > Len(lit) THEN OkInside(v, i, Len(lit))
    ELSE IF m <= Len(Letters(t[i])) THEN Fail("token", i, m - 1)
    ELSE Unexpected(t, i + 1)

ParseLiteral(t, i, v, lit) ==
    IF Letters(t[i]) = lit THEN Ok(v, i + 1)
    ELSE LiteralUpTo(t, i, v, lit, Mismatch(Letters(t[i]), lit, 2))

RECURSIVE ParseValue(_, _), ParseMembers(_, _, _, _), ParseElements(_, _, _)

\* after a member: "," and another member, or "}"
MemberEnd(t, d, acc) ==
    IF d > Len(t) THEN Fail("comma or brace", d, 0)
    ELSE IF t[d] = "," THEN ParseMembers(t, d + 1, acc, "quoted name")
    ELSE IF t[d] = "}" THEN Ok(Obj(acc), d + 1)
    ELSE Fail("comma or brace", d, 0)

\* a repeated key overwrites
MemberValue(t, key, v, acc) ==
    IF ~v.ok THEN v
    ELSE IF v.off > 0 THEN Fail("comma or brace", v.next, v.off)
    ELSE MemberEnd(t, SkipWs(t, v.next), Put(acc, key, v.v))

\* the colon after a key: only for the first member of an object does the
\* error name the missing colon
MemberColon(t, key, c, acc, why) ==
    IF c <= Len(t) /\ t[c] = ":" THEN MemberValue(t, key, ParseValue(t, c + 1), acc)
    ELSE IF why = "name or brace" THEN Fail("colon", c, 0)
    ELSE Unexpected(t, c)

MemberKey(t, k, acc, why) ==
    IF ~k.ok THEN k ELSE MemberColon(t, k.v.s, SkipWs(t, k.next), acc, why)

\* why is "name or brace" for the first member, "quoted name" for a later one
MemberAt(t, i, acc, why) ==
    IF i > Len(t) \/ t[i] # "\"" THEN Fail(why, i, 0)
    ELSE MemberKey(t, ParseString(t, i), acc, why)

\* members after "{" or ",": a key is expected at i0
ParseMembers(t, i0, acc, why) == MemberAt(t, SkipWs(t, i0), acc, why)

\* after an element: "," and another element, or "]"
ElementEnd(t, d, acc) ==
    IF d > Len(t) THEN Fail("comma or bracket", d, 0)
    ELSE IF t[d] = "," THEN ParseElements(t, d + 1, acc)
    ELSE IF t[d] = "]" THEN Ok(Arr(acc), d + 1)
    ELSE Fail("comma or bracket", d, 0)

ElementValue(t, v, acc) ==
    IF ~v.ok THEN v
    ELSE IF v.off > 0 THEN Fail("comma or bracket", v.next, v.off)
    ELSE ElementEnd(t, SkipWs(t, v.next), Append(acc, v.v))

\* elements after "[" or ",": a value is expected at i0
ParseElements(t, i0, acc) == ElementValue(t, ParseValue(t, i0), acc)

ObjectAt(t, i, j) ==
    IF j <= Len(t) /\ t[j] = "}" THEN Ok(Obj(<<>>), j + 1)
    ELSE ParseMembers(t, i + 1, <<>>, "name or brace")

ArrayAt(t, i, j) ==
    IF j <= Len(t) /\ t[j] = "]" THEN Ok(Arr(<<>>), j + 1) ELSE ParseElements(t, i + 1, <<>>)

ValueAt(t, i) ==
    IF i > Len(t) THEN Fail("eos", i, 0)
    ELSE IF t[i] = "{" THEN ObjectAt(t, i, SkipWs(t, i + 1))
    ELSE IF t[i] = "[" THEN ArrayAt(t, i, SkipWs(t, i + 1))
    ELSE IF t[i] = "\"" THEN ParseString(t, i)
    ELSE IF t[i] = "-" \/ IsDigit(t[i]) THEN ParseNumber(t, i)
    ELSE IF FirstLetter(t[i]) = "n" THEN ParseLiteral(t, i, Null, <<"n", "u", "l", "l">>)
    ELSE IF FirstLetter(t[i]) = "t" THEN ParseLiteral(t, i, Bool(TRUE), <<"t", "r", "u", "e">>)
    ELSE IF FirstLetter(t[i]) = "f"
         THEN ParseLiteral(t, i, Bool(FALSE), <<"f", "a", "l", "s", "e">>)
    ELSE Fail("token", i, 0)

ParseValue(t, i0) == ValueAt(t, SkipWs(t, i0))

\* nothing but white space may follow the value
WholeText(t, r) ==
    IF ~r.ok THEN r
    ELSE IF r.off > 0 THEN Fail("trailing", r.next, r.off)
    ELSE IF SkipWs(t, r.next) # Len(t) + 1 THEN Fail("trailing", SkipWs(t, r.next), 0)
    ELSE r

\* JSON.parse(t): [ok |-> TRUE, v |-> value, ...], or the SyntaxError
JSONparse(t) == WholeText(t, ParseValue(t, 1))

\* the number of characters before the place where the parser stopped
Position(t, r) == Len(Explode(SubSeq(t, 1, r.at - 1))) + r.off

AtPosition(text, pos) == text \o <<" in JSON at position ">> \o NatToString(pos)

\* the source around the unexpected character: all of it when it is shorter
\* than 21 characters, else at most 10 characters on either side
Context(chars, pos) ==
    IF Len(chars) < 21 THEN <<"\"">> \o chars \o <<"\"">>
    ELSE IF pos < 10 THEN <<"\"">> \o SubSeq(chars, 1, pos + 10) \o <<"\"", "...">>
    ELSE IF pos < Len(chars) - 10
         THEN <<"...", "\"">> \o SubSeq(chars, pos - 9, pos + 10) \o <<"\"", "...">>
    ELSE <<"...", "\"">> \o SubSeq(chars, pos - 9, Len(chars)) \o <<"\"">>

AfterJson(text, pos) == text \o <<" after JSON at position ">> \o NatToString(pos)

\* the sources whose error quotes the source and names no token
SpecialStrings ==
    { <<"N", "a", "N">>, <<"u", "n", "d", "e", "f", "i", "n", "e", "d">>,
      <<"I", "n", "f", "i", "n", "i", "t", "y">>,
      <<"[", "o", "b", "j", "e", "c", "t", " ", "O", "b", "j", "e", "c", "t", "]">> }

UnexpectedToken(chars, pos) ==
    IF chars \in SpecialStrings THEN <<"\"">> \o chars \o <<"\"", " is not valid JSON">>
    ELSE <<"Unexpected token '", chars[pos + 1], "', ">> \o Context(chars, pos)
             \o <<" is not valid JSON">>

\* err.message of the SyntaxError r of JSON.parse(t), as V8 words it
SyntaxErrorMessage(t, r) ==
    CASE r.why = "eos" -> <<"Unexpected end of JSON input">>
      [] r.why = "token" -> UnexpectedToken(Explode(t), Position(t, r))
      [] r.why = "number" -> AtPosition(<<"Unexpected number">>, Position(t, r))
      [] r.why = "string" -> AtPosition(<<"Unexpected string">>, Position(t, r))
      [] r.why = "unterminated" -> AtPosition(<<"Unterminated string">>, Position(t, r))
      [] r.why = "control" ->
            AtPosition(<<"Bad control character in string literal">>, Position(t, r))
      [] r.why = "minus" -> AtPosition(<<"No number after minus sign">>, Position(t, r))
      [] r.why = "fraction" ->
            AtPosition(<<"Unterminated fractional number">>, Position(t, r))
      [] r.why = "exponent" ->
            AtPosition(<<"Exponent part is missing a number">>, Position(t, r))
      [] r.why = "name or brace" ->
            AtPosition(<<"Expected property name or '}'">>, Position(t, r))
      [] r.why = "quoted name" ->
            AtPosition(<<"Expected double-quoted property name">>, Position(t, r))
      [] r.why = "colon" ->
            AtPosition(<<"Expected ':' after property name">>, Position(t, r))
      [] r.why = "comma or brace" ->
            AtPosition(<<"Expected ',' or '}' after property value">>, Position(t, r))
      [] r.why = "comma or bracket" ->
            AtPosition(<<"Expected ',' or ']' after array element">>, Position(t, r))
      [] r.why = "trailing" ->
            AfterJson(<<"Unexpected non-whitespace character">>, Position(t, r))

----------------------------------------------------------------------------
(* Number conversions and arithmetic *)

RECURSIVE TrimLeft(_)
TrimLeft(s) == IF s # <<>> /\ IsWhitespace(Head(s)) THEN TrimLeft(Tail(s)) ELSE s

RECURSIVE TrimRight(_)
TrimRight(s) ==
    IF s # <<>> /\ IsWhitespace(s[Len(s)]) THEN TrimRight(SubSeq(s, 1, Len(s) - 1)) ELSE s

\* Number(string), on the characters c of the trimmed string: "" is 0, then
\*   0x hex digits | 0o octal digits | 0b binary digits      (no sign), or
\*   [+-]? ( digits (. digits?)? | . digits ),   anything else is NaN
\* c[b] .. c[ie-1] are the integer digits, c[ie+1] .. c[fe-1] the k fraction digits
DecimalLiteral(c, b, ie, fe, k, sign) ==
    IF fe # Len(c) + 1 THEN NaN
    ELSE IF ie = b /\ k = 0 THEN NaN
    ELSE Num(sign * (NatOf(c, b, ie) * Pow10(k) + NatOf(c, ie + 1, fe)), Pow10(k))

DecimalFraction(c, b, ie, fe, sign) == DecimalLiteral(c, b, ie, fe, fe - ie - 1, sign)

DecimalInteger(c, b, ie, sign) ==
    IF ie <= Len(c) /\ c[ie] = "."
    THEN DecimalFraction(c, b, ie, DigitsEnd(c, ie + 1), sign)
    ELSE DecimalLiteral(c, b, ie, ie, 0, sign)

DecimalDigits(c, b, sign) == DecimalInteger(c, b, DigitsEnd(c, b), sign)

\* the value of a digit of a literal in base 16, 8 or 2; 16 for any other character
HexVal(d) ==
    CASE IsDigit(d) -> DigitVal(d)
      [] d \in {"a", "A"} -> 10 [] d \in {"b", "B"} -> 11 [] d \in {"c", "C"} -> 12
      [] d \in {"d", "D"} -> 13 [] d \in {"f", "F"} -> 15
      [] OTHER -> 16

\* the value of the digits c[i] .. c[j-1] in the base
RECURSIVE RadixOf(_, _, _, _)
RadixOf(c, i, j, base) ==
    IF j <= i THEN 0 ELSE RadixOf(c, i, j - 1, base) * base + HexVal(c[j - 1])

NonDecimalLiteral(c, base) ==
    IF Len(c) < 3 \/ \E i \in 3..Len(c) : HexVal(c[i]) >= base THEN NaN
    ELSE Num(RadixOf(c, 3, Len(c) + 1, base), 1)

TrimmedToNumber(c) ==
    IF c = <<>> THEN Num(0, 1)
    ELSE IF Len(c) >= 2 /\ c[1] = "0" /\ c[2] \in {"x", "X"} THEN NonDecimalLiteral(c, 16)
    ELSE IF Len(c) >= 2 /\ c[1] = "0" /\ c[2] \in {"o", "O"} THEN NonDecimalLiteral(c, 8)
    ELSE IF Len(c) >= 2 /\ c[1] = "0" /\ c[2] \in {"b", "B"} THEN NonDecimalLiteral(c, 2)
    ELSE IF c[1] = "-" THEN DecimalDigits(c, 2, -1)
    ELSE IF c[1] = "+" THEN DecimalDigits(c, 2, 1)
    ELSE DecimalDigits(c, 1, 1)

StringToNumber(s) == TrimmedToNumber(Explode(TrimRight(TrimLeft(s))))

\* ToNumber(v).  An array converts through its join(","): the empty array is
\* "" (0), a one-element array is its element's string (null and undefined
\* elements are ""), and a longer one contains a comma (NaN).
RECURSIVE ToNumber(_)
ToNumber(v) ==
    CASE v.t = "undefined" -> NaN
      [] v.t = "null" -> Num(0, 1)
      [] v.t = "bool" -> IF v.b THEN Num(1, 1) ELSE Num(0, 1)
      [] v.t = "num" -> v
      [] v.t = "nan" -> NaN
      [] v.t = "str" -> StringToNumber(v.s)
      [] v.t = "arr" ->
            IF Len(v.a) = 0 THEN Num(0, 1)
            ELSE IF Len(v.a) > 1 THEN NaN
            ELSE IF v.a[1].t \in {"undefined", "null"} THEN Num(0, 1)
            ELSE IF v.a[1].t = "bool" THEN NaN
            ELSE ToNumber(v.a[1])
      [] v.t = "obj" -> NaN

\* x > 0 for a number x
Positive(x) == x.t = "num" /\ x.n > 0

\* v > 0
GreaterThanZero(v) == Positive(ToNumber(v))

\* (x / y) * 100 for numbers x and y; a zero divisor gives NaN or an infinity,
\* written NaN here: the handler divides only after totalCount > 0
Percent(x, y) ==
    IF x.t = "nan" \/ y.t = "nan" THEN NaN
    ELSE IF y.n = 0 THEN NaN
    ELSE Num(x.n * y.d * 100, x.d * y.n)

\* (a / b) * 100
PercentOf(a, b) == Percent(ToNumber(a), ToNumber(b))

----------------------------------------------------------------------------
(* Response extraction and normalisation *)

totalCount == <<"totalCount">>
positiveCount == <<"positiveCount">>
negativeCount == <<"negativeCount">>
positive == <<"positive">>
negative == <<"negative">>
keywords == <<"keywords">>
sentimentsKey == <<"sentiments">>
errorKey == <<"error">>

\* text.match(/\{[\s\S]*\}/): leftmost "{", then greedily up to the last "}"
FirstBrace(text) == IndexFrom(text, "{", 1)
\* a non-greedy match: up to the first "}" after the first "{"
FirstClosingBrace(text) == IndexFrom(text, "}", FirstBrace(text) + 1)

LastBrace(text) == LastIndexOf(text, "}", Len(text))

Span(text, i, j) ==
    IF i = 0 \/ j < i THEN [ok |-> FALSE] ELSE [ok |-> TRUE, span |-> SubSeq(text, i, j)]

Match(text) == Span(text, FirstBrace(text), LastBrace(text))

Parsed(r, span) ==
    IF r.ok THEN [kind |-> "value", v |-> r.v]
    ELSE [kind |-> "throw", message |-> SyntaxErrorMessage(span, r)]

ParseMatch(m) == IF ~m.ok THEN [kind |-> "null"] ELSE Parsed(JSONparse(m.span), m.span)

\* match ? JSON.parse(match[0]) : null
\*   [kind |-> "value", v |-> ...], [kind |-> "null"] or
\*   [kind |-> "throw", message |-> ...]
Extract(text) == ParseMatch(Match(text))

\* the division without the totalCount > 0 guard
FallbackUnguarded(count, total) == PercentOf(count, total)

\* json.totalCount > 0 ? (json.fCount / json.totalCount) * 100 : 0
Fallback(count, total) ==
    IF GreaterThanZero(total) THEN PercentOf(count, total) ELSE Num(0, 1)

\* every percentage is taken as invalid and recomputed
AlwaysInvalid(x) == TRUE

\* typeof x !== 'number' || isNaN(x)
NotANumber(x) == ~IsNumberType(x) \/ IsNaN(x)

\* if (typeof json.f !== 'number' || isNaN(json.f)) json.f = ...
FixPercentage(json, f, fCount) ==
    IF NotANumber(Get(json, f))
    THEN Obj(Put(json.o, f, Fallback(Get(json, fCount), Get(json, totalCount))))
    ELSE json

Normalize(json) ==
    FixPercentage(FixPercentage(json, positive, positiveCount), negative, negativeCount)

\* NextResponse.json(v): what a client reads back from JSON.stringify(v);
\* NaN is written as null, an undefined member is left out
RECURSIVE Wire(_)
WireMembers(keep) == Obj([i \in 1..Len(keep) |-> [k |-> keep[i].k, v |-> Wire(keep[i].v)]])

Wire(v) ==
    CASE v.t = "nan" -> Null
      [] v.t = "undefined" -> Null
      [] v.t = "arr" -> Arr([i \in 1..Len(v.a) |-> Wire(v.a[i])])
      [] v.t = "obj" -> WireMembers(SelectSeq(v.o, LAMBDA m : m.v.t # "undefined"))
      [] OTHER -> v

----------------------------------------------------------------------------
(* Template literals: `${i + 1}. ${r}` *)

\* the k low decimal digits of m, leading zeros kept
RECURSIVE PadDigits(_, _)
PadDigits(m, k) ==
    IF k = 0 THEN <<>> ELSE PadDigits(m \div 10, k - 1) \o <<DigitChunk(m % 10)>>

RECURSIVE DecimalPlaces(_, _)
DecimalPlaces(d, k) == IF Pow10(k) % d = 0 THEN k ELSE DecimalPlaces(d, k + 1)

\* m / 10^k in decimal notation
Decimal(m, k) ==
    NatToString(m \div Pow10(k))
    \o (IF k = 0 THEN <<>> ELSE <<".">> \o PadDigits(m % Pow10(k), k))

Scaled(v, k) ==
    (IF v.n < 0 THEN <<"-">> ELSE <<>>) \o Decimal((Abs(v.n) * Pow10(k)) \div v.d, k)

\* String(x) of a number read from a decimal literal (its denominator divides
\* a power of ten; magnitudes stay in the range printed without an exponent)
NumberToString(v) == Scaled(v, DecimalPlaces(v.d, 0))

RECURSIVE TemplateString(_), JoinComma(_)
\* a.join(","): null and undefined elements are empty
JoinComma(a) ==
    IF a = <<>> THEN <<>>
    ELSE (IF Head(a).t \in {"undefined", "null"} THEN <<>> ELSE TemplateString(Head(a)))
         \o (IF Len(a) = 1 THEN <<>> ELSE <<",">> \o JoinComma(Tail(a)))

TemplateString(v) ==
    CASE v.t = "undefined" -> <<"undefined">>
      [] v.t = "null" -> <<"null">>
      [] v.t = "bool" -> IF v.b THEN <<"true">> ELSE <<"false">>
      [] v.t = "num" -> NumberToString(v)
      [] v.t = "nan" -> <<"NaN">>
      [] v.t = "str" -> v.s
      [] v.t = "arr" -> JoinComma(v.a)
      [] v.t = "obj" -> <<"[", "object", " ", "Object", "]">>

\* the same list numbered from 0: `${i}. ${r}`
RECURSIVE ZeroBasedList(_, _)
ZeroBasedList(a, i) ==
    IF i > Len(a) THEN <<>>
    ELSE NatToString(i - 1) \o <<".", " ">> \o TemplateString(a[i])
         \o (IF i = Len(a) THEN <<>> ELSE <<"\n">> \o ZeroBasedList(a, i + 1))

\* a.map((r, i) => `${i + 1}. ${r}`).join('\n') from element i on
RECURSIVE NumberedList(_, _)
NumberedList(a, i) ==
    IF i > Len(a) THEN <<>>
    ELSE NatToString(i) \o <<".", " ">> \o TemplateString(a[i])
         \o (IF i = Len(a) THEN <<>> ELSE <<"\n">> \o NumberedList(a, i + 1))

----------------------------------------------------------------------------
(* Bounds and inputs *)

\* longest batch of reviews in a request
MaxReviews == 2
\* largest count the model text reports
MaxCount == 4

q == "\""

Quoted(w) == <<q>> \o w \o <<q>>

\* "key":value
Member(key, value) == Quoted(key) \o <<":">> \o value

CommaBefore(rest) == IF rest = <<>> THEN <<>> ELSE <<",">> \o rest

\* the non-empty members joined by commas, in braces
RECURSIVE JoinMembers(_)
JoinMembers(ms) ==
    IF ms = <<>> THEN <<>>
    ELSE IF Head(ms) = <<>> THEN JoinMembers(Tail(ms))
    ELSE Head(ms) \o CommaBefore(JoinMembers(Tail(ms)))

ObjectText(ms) == <<"{">> \o JoinMembers(ms) \o <<"}">>

RECURSIVE JoinElements(_)
JoinElements(es) ==
    IF es = <<>> THEN <<>>
    ELSE Head(es) \o (IF Len(es) = 1 THEN <<>> ELSE <<",">> \o JoinElements(Tail(es)))

ArrayText(es) == <<"[">> \o JoinElements(es) \o <<"]">>

\* request bodies: what `await req.json()` yields
ReviewText(i) == Str(<<"review", " ", DigitChunk(i)>>)

Batch(k) == Arr([i \in 1..k |-> ReviewText(i)])

LocaleValues == <<Undefined, Str(<<"en">>), Str(<<"ko">>), Str(<<"KO">>)>>

BodyOf(batch, loc) ==
    Obj(<<[k |-> <<"reviews">>, v |-> batch]>>
        \o (IF loc.t = "undefined" THEN <<>> ELSE <<[k |-> <<"locale">>, v |-> loc]>>))

RequestBody(shape, k, loc) ==
    CASE shape = "not json" -> [ok |-> FALSE, v |-> Undefined]
      [] shape = "null" -> [ok |-> TRUE, v |-> Null]
      [] shape = "no reviews" ->
            [ok |-> TRUE, v |-> Obj(<<[k |-> <<"locale">>, v |-> Str(<<"ko">>)]>>)]
      [] shape = "not a sequence" -> [ok |-> TRUE, v |-> BodyOf(Str(<<"review">>), loc)]
      [] shape = "batch" -> [ok |-> TRUE, v |-> BodyOf(Batch(k), loc)]
      [] shape = "mixed" ->
            [ok |-> TRUE,
             v |-> BodyOf(Arr(<<Str(<<" ">>), Num(7, 1)>>), LocaleValues[2])]

BodyShapes == {"not json", "null", "no reviews", "not a sequence", "batch", "mixed"}

\* stage-1 model texts
Labels == {Quoted(<<"positive">>), Quoted(<<"negative">>)}
NotLabels == {Quoted(<<"neutral">>), <<"1">>, <<"null">>}

LabelLists(n) == UNION {[1..m -> Labels] : m \in 0..n}

SentimentLists ==
    LabelLists(MaxReviews + 1)
    \cup {Append(p, b) : p \in LabelLists(MaxReviews - 1), b \in NotLabels}

Prefixes == {<<>>, <<"Sure", "!", " ">>, <<"}", " ">>}
Suffixes == {<<>>, <<" ", "Thanks", ".">>, <<" ", "{">>}

\* texts with no payload, or with a span that is not valid JSON
BrokenTexts ==
    { <<>>,
      <<"I", " ", "cannot", " ", "help", ".">>,
      <<"}", " ", "{">>,
      <<"{", q, "a", q, ":", "1">>,
      <<"{", q, "a", q, ":", "1", ",", "}">>,
      <<"{", q, "a", q, ":", "0", "1", "}">>,
      <<"{", q, "a", q, " ", "1", "}">>,
      <<"{", q, "a", q, ":", "1", ",", q, "b", q, " ", "2", "}">>,
      <<"{", "a", ":", "1", "}">>,
      <<"{", q, "a", q, ":", "1", "}", " ", "or", " ", "{", q, "a", q, ":", "2", "}">>,
      <<"{", " ", "{", q, "a", q, ":", "1", "}">>,
      <<"{", q, "a", q, ":", "1", "}", " ", "}">> }

Stage1Texts ==
    {ObjectText(<<Member(sentimentsKey, ArrayText(l))>>) : l \in SentimentLists}
    \cup {pre \o ObjectText(<<Member(sentimentsKey,
                                      ArrayText(<<Quoted(<<"positive">>)>>))>>) \o post :
              pre \in Prefixes, post \in Suffixes}
    \cup { ObjectText(<<Member(sentimentsKey, Quoted(<<"positive">>))>>),
           ObjectText(<<Member(<<"labels">>, ArrayText(<<Quoted(<<"positive">>)>>))>>),
           ObjectText(<<>>),
           <<"{", "\n", " ">> \o Member(sentimentsKey, <<" ", "[", "\n", "\t">>
               \o Quoted(<<"positive">>) \o <<"\n", "]">>) \o <<"\n", "}">> }
    \cup BrokenTexts

\* final model texts
CountValues ==
    {NatToString(n) : n \in 0..MaxCount}
    \cup {Quoted(<<"3">>), Quoted(<<" ", "+", "4", "\n">>), <<"null">>}

PercentValues ==
    { <<"7", "5">>, <<"1", "5", "0">>, <<"-", "5">>, <<"3", "3", ".", "5">>,
      Quoted(<<"7", "5">>), <<"null">> }

OptionalMember(key, values) == {<<>>} \cup {Member(key, v) : v \in values}

KeywordText(word, label, count, indices) ==
    ObjectText(<< Member(<<"keyword">>, Quoted(<<word>>)),
                  Member(<<"sentiment">>, Quoted(<<label>>)),
                  Member(<<"count">>, NatToString(count)),
                  Member(<<"reviewIndices">>, ArrayText(indices)),
                  Member(<<"aspect">>, Quoted(<<word>>)) >>)

KeywordValues ==
    { ArrayText(<<>>),
      ArrayText(<<KeywordText("price", "positive", 5, <<<<"0">>>>),
                  KeywordText("design", "positive", 8, <<<<"0">>, <<"1">>>>)>>),
      ArrayText(<<KeywordText("design", "positive", 8, <<<<"0">>>>),
                  KeywordText("delivery", "negative", 1, <<NatToString(MaxReviews)>>)>>),
      ArrayText(<<KeywordText("price", "positive", 5, <<<<"0">>>>),
                  ObjectText(<<Member(<<"keyword">>, Quoted(<<"screen">>)),
                               Member(<<"sentiment">>, Quoted(<<"positive">>))>>),
                  KeywordText("design", "positive", 8, <<<<"0">>>>)>>),
      Quoted(<<"none">>) }

FinalTexts ==
    {ObjectText(<<t, c, p>>) :
        t \in OptionalMember(totalCount, CountValues),
        c \in OptionalMember(positiveCount, CountValues),
        p \in OptionalMember(positive, PercentValues)}
    \cup {ObjectText(<<t, Member(positiveCount, <<"1">>), c, p>>) :
        t \in OptionalMember(totalCount, CountValues),
        c \in OptionalMember(negativeCount, CountValues),
        p \in OptionalMember(negative, PercentValues)}
    \cup {pre \o ObjectText(<< Member(totalCount, <<"2">>), Member(positiveCount, <<"1">>),
                               Member(negativeCount, <<"1">>), p, n,
                               Member(keywords, k) >>) \o post :
        p \in OptionalMember(positive, {<<"5", "0">>}),
        n \in OptionalMember(negative, {<<"5", "0">>}),
        k \in KeywordValues, pre \in Prefixes, post \in Suffixes}
    \cup {pre \o ObjectText(<<Member(<<"a">>, <<"1">>)>>) \o post :
        pre \in Prefixes, post \in Suffixes}
    \cup { <<"{", "\n", " ", " ">> \o Member(totalCount, <<" ", "4">>) \o <<",", "\r", "\n", "\t">>
               \o Member(positiveCount, <<"3">>) \o <<"\n", "}", "\n">>,
           ObjectText(<<Member(totalCount, <<"2">>), Member(<<"1", "0">>, <<"1">>),
                        Member(<<"2">>, <<"1">>)>>),
           ObjectText(<<Member(totalCount, <<"2">>),
                        Member(<<"a">>, <<q, "great", "\n", "phone", q>>)>>) }
    \cup BrokenTexts

\* what `await openai.chat.completions.create(...)` can do: resolve with a
\* content string or a null content, resolve without choices, or reject
Completions(texts) ==
    {[kind |-> "content", text |-> t, message |-> <<>>] : t \in texts}
    \cup {[kind |-> "null content", text |-> <<>>, message |-> <<>>],
          [kind |-> "no choices", text |-> <<>>, message |-> <<>>],
          [kind |-> "rejected", text |-> <<>>, message |-> <<"Connection error.">>],
          [kind |-> "rejected", text |-> <<>>, message |-> <<>>]}

----------------------------------------------------------------------------
(* The route handler POST *)

VARIABLES
    apiKey,      \* process.env.OPENAI_API_KEY is set
    body,        \* outcome of `await req.json()`: the value read, or ok = FALSE if it rejects
    pc,          \* "start", "stage1", "stage2", "single", "done", "thrown"
    sentiments,  \* the local `sentiments`
    sent,        \* the inference calls made so far, in order
    received,    \* the completions consumed so far, in order
    failed,      \* where the request failed: "none", "request", a stage, "unhandled"
    response,    \* the response returned; status 0 while there is none
    focus,       \* the invocation of POST whose locals the variables above are
    suspended,   \* the locals of the other invocations, each waiting at an await
    submitted,   \* the request body each invocation was called with
    lang, input, fileName, result, loading, error,   \* state of the page Home
    storedReviews,                                   \* its state `reviews`
    modalOpen, selectedKeyword, selectedReviews, selectedSentiment, langMenuOpen,
    pending,     \* the calls of handleAnalyze that wait at fetch or at res.json()
    posted,      \* the number of requests sent to /api/analyze so far
    resultBatch, \* the batch of the request whose response is in `result`
    event        \* the handler of the page that ran last, and its argument

vars == <<apiKey, body, pc, sentiments, sent, received, failed, response,
          focus, suspended, submitted,
          lang, input, fileName, result, loading, error, storedReviews,
          modalOpen, selectedKeyword, selectedReviews, selectedSentiment, langMenuOpen,
          pending, posted, resultBatch, event>>

\* the route handler and its invocations
server == <<apiKey, body, pc, sentiments, sent, received, failed, response,
            focus, suspended, submitted>>

\* the state of the page that is shown in the modal
modal == <<modalOpen, selectedKeyword, selectedReviews, selectedSentiment>>

\* the page Home
page == <<lang, input, fileName, result, loading, error, storedReviews, modal,
          langMenuOpen, pending, posted, resultBatch, event>>

NoEvent == [name |-> "none", arg |-> Undefined]

\* the useState initial values
PageInit ==
    /\ lang = "en"
    /\ input = <<>>
    /\ fileName = <<>>
    /\ result = Null
    /\ loading = FALSE
    /\ error = Null
    /\ storedReviews = <<>>
    /\ modalOpen = FALSE
    /\ selectedKeyword = Null
    /\ selectedReviews = <<>>
    /\ selectedSentiment = Null
    /\ langMenuOpen = FALSE
    /\ pending = <<>>
    /\ posted = 0
    /\ resultBatch = <<>>
    /\ event = NoEvent

\* the invocations of POST other than the running one
others == <<focus, suspended, submitted>>

\* const { reviews, locale } = await req.json()
reviews == Get(body.v, <<"reviews">>)
locale == Get(body.v, <<"locale">>)

NoResponse == [status |-> 0, body |-> Undefined]

\* NextResponse.json(value, { status })
JsonResponse(value, status) == [status |-> status, body |-> Wire(value)]

ErrorBody(message) == Obj(<<[k |-> errorKey, v |-> Str(message)]>>)

\* err.message || fallback
MessageOr(message, fallback) == IF message = <<>> THEN fallback ELSE message

TypeErrorMessage == <<"Cannot read properties of undefined (reading 'message')">>

\* any locale string selects the two-pass sequence
TwoPassAnyLocale == locale.t = "str"

\* locale === 'ko'
TwoPass == locale = Str(<<"ko">>)

\* !reviews || !Array.isArray(reviews) || reviews.length === 0
InvalidBatch(r) == Falsy(r) \/ ~IsArray(r) \/ Len(r.a) = 0

SentimentCall ==
    [stage |-> "stage1", model |-> "gpt-4.1-mini",
     reviewList |-> NumberedList(reviews.a, 1), sentimentList |-> <<>>]

KeywordCall(labels) ==
    [stage |-> "stage2", model |-> "gpt-4.1-mini",
     reviewList |-> NumberedList(reviews.a, 1),
     sentimentList |-> NumberedList(labels.a, 1)]

SingleCall ==
    [stage |-> "single", model |-> "gpt-4.1-mini",
     reviewList |-> NumberedList(reviews.a, 1), sentimentList |-> <<>>]

\* completion.choices[0].message.content || ''
\*   [threw |-> FALSE, text |-> ...] or [threw |-> TRUE, message |-> ...]
Content(c) ==
    CASE c.kind = "rejected" -> [threw |-> TRUE, message |-> c.message]
      [] c.kind = "no choices" -> [threw |-> TRUE, message |-> TypeErrorMessage]
      [] c.kind = "null content" -> [threw |-> FALSE, text |-> <<>>]
      [] c.kind = "content" -> [threw |-> FALSE, text |-> c.text]

\* only a sequence shorter than the batch is rejected
LengthShorter(labels, batch) == Len(labels.a) < Len(batch.a)

\* sentiments.length !== reviews.length
LengthMismatch(labels, batch) == Len(labels.a) # Len(batch.a)

Threw(message, labels) == [threw |-> TRUE, message |-> message, labels |-> labels]

\* if (sentiments.length !== reviews.length) throw ...   (sentiments is assigned)
Stage1Length(labels, batch) ==
    IF LengthMismatch(labels, batch)
    THEN Threw(<<"Sentiment array length mismatch">>, labels)
    ELSE [threw |-> FALSE, message |-> <<>>, labels |-> labels]

\* if (!sentimentJson || !Array.isArray(sentimentJson.sentiments)) throw ...
Stage1Validate(json, batch) ==
    IF Falsy(json) \/ ~IsArray(Get(json, sentimentsKey))
    THEN Threw(<<"No valid sentiments array in OpenAI response">>, Arr(<<>>))
    ELSE Stage1Length(Get(json, sentimentsKey), batch)

Stage1Parse(x, batch) ==
    IF x.kind = "throw" THEN Threw(x.message, Arr(<<>>))
    ELSE IF x.kind = "null" THEN Stage1Validate(Null, batch)
    ELSE Stage1Validate(x.v, batch)

Stage1Content(got, batch) ==
    IF got.threw THEN Threw(got.message, Arr(<<>>))
    ELSE Stage1Parse(Extract(got.text), batch)

\* the try block of stage 1 after the call, for the batch `reviews` of the
\* request: the new value of `sentiments` and, if it threw, the error's message
Stage1Try(c, batch) == Stage1Content(Content(c), batch)

\* if (!json) throw new Error(noJson); then the percentage fallback
FinalValidate(json, noJson) ==
    IF Falsy(json) THEN [threw |-> TRUE, message |-> noJson]
    ELSE [threw |-> FALSE, json |-> Normalize(json)]

FinalParse(x, noJson) ==
    IF x.kind = "throw" THEN [threw |-> TRUE, message |-> x.message]
    ELSE IF x.kind = "null" THEN FinalValidate(Null, noJson)
    ELSE FinalValidate(x.v, noJson)

FinalContent(got, noJson) ==
    IF got.threw THEN [threw |-> TRUE, message |-> got.message]
    ELSE FinalParse(Extract(got.text), noJson)

\* lines 142-153: the try block of the single pass after the call
FinalTry(c, noJson) == FinalContent(Content(c), noJson)

\* lines 121-123: if (typeof keywordJson.positive !== 'number' || isNaN(...)) ...
KeywordFixPositive(json) ==
    IF NotANumber(Get(json, positive))
    THEN Obj(Put(json.o, positive,
                 Fallback(Get(json, positiveCount), Get(json, totalCount))))
    ELSE json

\* lines 124-126: if (typeof keywordJson.negative !== 'number' || isNaN(...)) ...
KeywordFixNegative(json) ==
    IF NotANumber(Get(json, negative))
    THEN Obj(Put(json.o, negative,
                 Fallback(Get(json, negativeCount), Get(json, totalCount))))
    ELSE json

\* a stage 2 that repairs the positive percentage only
KeywordNormalizePositiveOnly(json) == KeywordFixPositive(json)

\* lines 121-126
KeywordNormalize(json) == KeywordFixNegative(KeywordFixPositive(json))

\* if (!keywordJson) throw new Error(...); then the percentage fallback
KeywordValidate(json) ==
    IF Falsy(json) THEN [threw |-> TRUE, message |-> <<"No JSON in OpenAI keyword response">>]
    ELSE [threw |-> FALSE, json |-> KeywordNormalize(json)]

KeywordParse(x) ==
    IF x.kind = "throw" THEN [threw |-> TRUE, message |-> x.message]
    ELSE IF x.kind = "null" THEN KeywordValidate(Null)
    ELSE KeywordValidate(x.v)

KeywordContent(got) ==
    IF got.threw THEN [threw |-> TRUE, message |-> got.message]
    ELSE KeywordParse(Extract(got.text))

\* lines 116-126: the try block of stage 2 after the call
KeywordTry(c) == KeywordContent(Content(c))

\* the locals of an invocation, as they are kept across an await
Frame ==
    [body |-> body, pc |-> pc, sentiments |-> sentiments, sent |-> sent,
     received |-> received, failed |-> failed, response |-> response]

\* the locals of an invocation called with request body b, before its first step
NewFrame(b) ==
    [body |-> b, pc |-> "start", sentiments |-> Arr(<<>>), sent |-> <<>>,
     received |-> <<>>, failed |-> "none", response |-> NoResponse]

\* the entry of the running invocation in `suspended`
Running == [pc |-> "running"]

Init ==
    /\ apiKey \in BOOLEAN
    /\ \E shape \in BodyShapes, k \in 0..MaxReviews, l \in 1..Len(LocaleValues) :
           body = RequestBody(shape, k, LocaleValues[l])
    /\ pc = "start"
    /\ sentiments = Arr(<<>>)
    /\ sent = <<>>
    /\ received = <<>>
    /\ failed = "none"
    /\ response = NoResponse
    /\ focus = 1
    /\ suspended = <<Running>>
    /\ submitted = <<body>>
    /\ PageInit

\* lines 7-64 and 132-141: up to the first inference call
Start ==
    /\ pc = "start"
    /\ UNCHANGED <<apiKey, body, sentiments, received, others, page>>
    /\ IF ~body.ok \/ body.v.t \in {"null", "undefined"}
       THEN /\ pc' = "thrown"
            /\ failed' = "unhandled"
            /\ UNCHANGED <<sent, response>>
       ELSE IF ~apiKey
       THEN /\ pc' = "done"
            /\ failed' = "request"
            /\ response' = JsonResponse(ErrorBody(<<"OpenAI API key not set.">>), 500)
            /\ UNCHANGED sent
       ELSE IF InvalidBatch(reviews)
       THEN /\ pc' = "done"
            /\ failed' = "request"
            /\ response' = JsonResponse(ErrorBody(<<"No reviews provided.">>), 400)
            /\ UNCHANGED sent
       ELSE IF TwoPass
       THEN /\ pc' = "stage1"
            /\ sent' = Append(sent, SentimentCall)
            /\ UNCHANGED <<failed, response>>
       ELSE /\ pc' = "single"
            /\ sent' = Append(sent, SingleCall)
            /\ UNCHANGED <<failed, response>>

\* a catch block of stage 1 that does not return
Stage1FinishFallThrough(r) ==
    /\ sentiments' = r.labels
    /\ pc' = "stage2"
    /\ sent' = Append(sent, KeywordCall(r.labels))
    /\ IF r.threw
       THEN /\ failed' = "stage1"
            /\ response' = JsonResponse(
                   ErrorBody(MessageOr(r.message, <<"OpenAI sentiment step error">>)), 500)
       ELSE UNCHANGED <<failed, response>>

\* lines 71-115: the catch block of stage 1 returns; otherwise stage 2 is called
Stage1Finish(r) ==
    /\ sentiments' = r.labels
    /\ IF r.threw
       THEN /\ pc' = "done"
            /\ failed' = "stage1"
            /\ response' = JsonResponse(
                   ErrorBody(MessageOr(r.message, <<"OpenAI sentiment step error">>)), 500)
            /\ UNCHANGED sent
       ELSE /\ pc' = "stage2"
            /\ sent' = Append(sent, KeywordCall(r.labels))
            /\ UNCHANGED <<failed, response>>

\* lines 65-115: the stage-1 completion arrives
Stage1Returns(c) ==
    /\ pc = "stage1"
    /\ received' = Append(received, c)
    /\ UNCHANGED <<apiKey, body, others, page>>
    /\ Stage1Finish(Stage1Try(c, reviews))

\* return NextResponse.json(json), or the catch block's error response
FinalFinish(r, stage, fallback) ==
    IF r.threw
    THEN /\ failed' = stage
         /\ response' = JsonResponse(ErrorBody(MessageOr(r.message, fallback)), 500)
    ELSE /\ response' = JsonResponse(r.json, 200)
         /\ UNCHANGED failed

\* lines 116-130: the stage-2 completion arrives
Stage2Returns(c) ==
    /\ pc = "stage2"
    /\ received' = Append(received, c)
    /\ pc' = "done"
    /\ UNCHANGED <<apiKey, body, sentiments, sent, others, page>>
    /\ FinalFinish(KeywordTry(c),
                   "stage2", <<"OpenAI keyword step error">>)

\* lines 142-157: the single-pass completion arrives
SingleReturns(c) ==
    /\ pc = "single"
    /\ received' = Append(received, c)
    /\ pc' = "done"
    /\ UNCHANGED <<apiKey, body, sentiments, sent, others, page>>
    /\ FinalFinish(FinalTry(c, <<"No JSON in OpenAI response">>), "single", <<"OpenAI error">>)

Next ==
    \/ Start
    \/ \E c \in Completions(Stage1Texts) : Stage1Returns(c)
    \/ \E c \in Completions(FinalTexts) : Stage2Returns(c)
    \/ \E c \in Completions(FinalTexts) : SingleReturns(c)

Spec == Init /\ [][Next]_vars

\* every inference call returns or raises, and the handler then runs on
FairSpec == Spec /\ WF_vars(Next)

----------------------------------------------------------------------------
(* Several invocations of POST, interleaved at their awaits *)

MaxRequests == 2

\* `reviews` and `locale` declared outside POST: one binding for all invocations
SharedBody(f) == body

\* `const { reviews, locale }` is local to the invocation
FrameBody(f) == f.body

\* the running invocation waits at an await and invocation r resumes
Switch(r) ==
    /\ r # focus
    /\ focus' = r
    /\ suspended' = [suspended EXCEPT ![focus] = Frame, ![r] = Running]
    /\ body' = FrameBody(suspended[r])
    /\ pc' = suspended[r].pc
    /\ sentiments' = suspended[r].sentiments
    /\ sent' = suspended[r].sent
    /\ received' = suspended[r].received
    /\ failed' = suspended[r].failed
    /\ response' = suspended[r].response
    /\ UNCHANGED <<apiKey, submitted, page>>

ConcurrentBodies ==
    { RequestBody("batch", 1, Str(<<"ko">>)), RequestBody("batch", MaxReviews, Str(<<"ko">>)),
      RequestBody("batch", 1, Str(<<"en">>)), RequestBody("batch", 0, Str(<<"ko">>)) }

ConcurrentStage1Texts ==
    { ObjectText(<<Member(sentimentsKey, ArrayText(<<Quoted(<<"positive">>)>>))>>),
      ObjectText(<<Member(sentimentsKey, ArrayText([i \in 1..MaxReviews |-> Quoted(<<"negative">>)]))>>) }

ConcurrentFinalTexts ==
    { ObjectText(<<Member(totalCount, <<"1">>), Member(positiveCount, <<"1">>)>>),
      ObjectText(<<Member(totalCount, <<"2">>), Member(positive, <<"5", "0">>)>>) }

ConcurrentCompletions(texts) ==
    {[kind |-> "content", text |-> t, message |-> <<>>] : t \in texts}
    \cup {[kind |-> "rejected", text |-> <<>>, message |-> <<"Connection error.">>]}

ConcurrentInit ==
    /\ apiKey \in BOOLEAN
    /\ submitted \in [1..MaxRequests -> ConcurrentBodies]
    /\ focus = 1
    /\ body = submitted[1]
    /\ suspended = [r \in 1..MaxRequests |->
                        IF r = 1 THEN Running ELSE NewFrame(submitted[r])]
    /\ pc = "start"
    /\ sentiments = Arr(<<>>)
    /\ sent = <<>>
    /\ received = <<>>
    /\ failed = "none"
    /\ response = NoResponse
    /\ PageInit

ConcurrentNext ==
    \/ Start
    \/ \E c \in ConcurrentCompletions(ConcurrentStage1Texts) : Stage1Returns(c)
    \/ \E c \in ConcurrentCompletions(ConcurrentFinalTexts) : Stage2Returns(c)
    \/ \E c \in ConcurrentCompletions(ConcurrentFinalTexts) : SingleReturns(c)
    \/ \E r \in 1..MaxRequests : Switch(r)

SpecConcurrent == ConcurrentInit /\ [][ConcurrentNext]_vars

----------------------------------------------------------------------------
(* The page Home: the keyword cards rendered from a result *)

countKey == <<"count">>
sentimentKey == <<"sentiment">>
reviewIndicesKey == <<"reviewIndices">>

\* the elements k of ks with k.sentiment === label
RECURSIVE WithSentiment(_, _)
WithSentiment(ks, label) ==
    IF ks = <<>> THEN <<>>
    ELSE IF Get(Head(ks), sentimentKey) = Str(<<label>>)
         THEN <<Head(ks)>> \o WithSentiment(Tail(ks), label)
         ELSE WithSentiment(Tail(ks), label)

\* result.keywords.filter(k => k.sentiment === label): reading k.sentiment of
\* an element that is null throws a TypeError
FilterSentiment(ks, label) ==
    IF \E i \in 1..Len(ks) : ks[i] = Null
    THEN [threw |-> TRUE,
          message |-> <<"Cannot read properties of null (reading 'sentiment')">>]
    ELSE [threw |-> FALSE, list |-> WithSentiment(ks, label)]

\* x - y > 0 for numbers x and y (false when either is NaN)
Exceeds(x, y) == x.t = "num" /\ y.t = "num" /\ x.n * y.d > y.n * x.d

\* the comparator (a, b) => b.count - a.count called with (b, a) is negative;
\* a result of NaN counts as 0
GoesBefore(b, a) == Exceeds(ToNumber(Get(b, countKey)), ToNumber(Get(a, countKey)))

\* Array.prototype.sort of V8 on fewer than 64 elements: the run that starts
\* the array is found (and reversed if it descends under the comparator), and
\* the elements after it are inserted one by one at the place a binary search
\* finds.
\* ks[1] .. ks[idx-1] is the run so far
RECURSIVE RunLength(_, _, _)
RunLength(ks, idx, isDescending) ==
    IF idx > Len(ks) THEN idx - 1
    ELSE IF isDescending /\ ~GoesBefore(ks[idx], ks[idx - 1]) THEN idx - 1
    ELSE IF ~isDescending /\ GoesBefore(ks[idx], ks[idx - 1]) THEN idx - 1
    ELSE RunLength(ks, idx + 1, isDescending)

ReverseRange(ks, n) == [i \in 1..Len(ks) |-> IF i <= n THEN ks[n + 1 - i] ELSE ks[i]]

MakeRun(ks, n, isDescending) == IF isDescending THEN ReverseRange(ks, n) ELSE ks

\* the place of pivot among work[left] .. work[right-1]
RECURSIVE InsertionPoint(_, _, _, _)
InsertionPoint(work, pivot, left, right) ==
    IF left >= right THEN left
    ELSE IF GoesBefore(pivot, work[left + (right - left) \div 2])
    THEN InsertionPoint(work, pivot, left, left + (right - left) \div 2)
    ELSE InsertionPoint(work, pivot, left + (right - left) \div 2 + 1, right)

MoveTo(work, from, to) ==
    SubSeq(work, 1, to - 1) \o <<work[from]>> \o SubSeq(work, to, from - 1)
        \o SubSeq(work, from + 1, Len(work))

\* work[start] goes to its place among the sorted work[1] .. work[start-1]
InsertKeyword(work, start) ==
    MoveTo(work, start, InsertionPoint(work, work[start], 1, start))

RECURSIVE BinaryInsertionSort(_, _)
BinaryInsertionSort(work, start) ==
    IF start > Len(work) THEN work
    ELSE BinaryInsertionSort(InsertKeyword(work, start), start + 1)

SortFromRun(ks, n, isDescending) == BinaryInsertionSort(MakeRun(ks, n, isDescending), n + 1)

SortRun(ks, isDescending) == SortFromRun(ks, RunLength(ks, 3, isDescending), isDescending)

\* [...ks].sort((a, b) => b.count - a.count)
SortByCount(ks) == IF Len(ks) < 2 THEN ks ELSE SortRun(ks, GoesBefore(ks[2], ks[1]))

sortedPositive(data) == SortByCount(FilterSentiment(Get(data, keywords).a, "positive").list)
sortedNegative(data) == SortByCount(FilterSentiment(Get(data, keywords).a, "negative").list)

----------------------------------------------------------------------------
(* The page Home: handleAnalyze, handleBack, handleKeywordClick *)

\* input.split('\n'): cur is the line read so far
RECURSIVE SplitLines(_, _)
SplitLines(text, cur) ==
    IF text = <<>> THEN <<cur>>
    ELSE IF Head(text) = "\n" THEN <<cur>> \o SplitLines(Tail(text), <<>>)
    ELSE SplitLines(Tail(text), Append(cur, Head(text)))

\* .map((r) => r.trim())
TrimEach(lines) == [i \in 1..Len(lines) |-> TrimRight(TrimLeft(lines[i]))]

\* .filter((r) => r.length > 0)
NonEmpty(lines) == SelectSeq(lines, LAMBDA r : Len(r) > 0)

StrEach(lines) == [i \in 1..Len(lines) |-> Str(lines[i])]

\* const reviewsArr = input.split('\n').map(...).filter(...)
reviewsArr(text) == StrEach(NonEmpty(TrimEach(SplitLines(text, <<>>))))

\* batch[key] for a property key: an element, the length, or undefined (the
\* inherited properties of an array are not among the keys of the inputs)
PropertyOf(batch, key) ==
    IF IsArrayIndex(key)
    THEN IF NatOf(key, 1, Len(key) + 1) < Len(batch)
         THEN batch[NatOf(key, 1, Len(key) + 1) + 1]
         ELSE Undefined
    ELSE IF key = <<"length">> THEN Num(Len(batch), 1)
    ELSE Undefined

\* reviews[idx]: the index is converted to a property key
ElementAt(batch, idx) == PropertyOf(batch, TemplateString(idx))

\* keywordObj.reviewIndices.map((idx) => reviews[idx]).filter(Boolean)
reviewsToShow(indices, batch) ==
    SelectSeq([i \in 1..Len(indices) |-> ElementAt(batch, indices[i])],
              LAMBDA v : ~Falsy(v))

\* most requests the page sends in one behaviour
MaxAnalyses == 2

RemoveAt(seq, i) == SubSeq(seq, 1, i - 1) \o SubSeq(seq, i + 1, Len(seq))

Happened(name, arg) == [name |-> name, arg |-> arg]

\* {v} as a child of an element: a plain object throws ("Objects are not valid
\* as a React child"), an array is rendered element by element
RECURSIVE ValidChild(_)
ValidChild(v) ==
    CASE v.t = "obj" -> FALSE
      [] v.t = "arr" -> \A i \in 1..Len(v.a) : ValidChild(v.a[i])
      [] OTHER -> TRUE

\* capitalizeFirst(k.keyword) for every k of a card: str.charAt is a function
\* of strings only
Capitalizable(ks) == \A i \in 1..Len(ks) : Get(ks[i], <<"keyword">>).t = "str"

\* lines 240-357, the result view of a truthy result, render without throwing
Renders(data) ==
    /\ ValidChild(Get(data, positiveCount))
    /\ ValidChild(Get(data, negativeCount))
    /\ IsArray(Get(data, keywords))
    /\ ~FilterSentiment(Get(data, keywords).a, "positive").threw
    /\ Capitalizable(sortedPositive(data))
    /\ Capitalizable(sortedNegative(data))

\* when the render of Home throws the page is gone
Mounted == Falsy(result) \/ Renders(result)

\* the keyword buttons of the two cards
Cards ==
    IF Falsy(result) \/ ~Renders(result) THEN {}
    ELSE {sortedPositive(result)[i] : i \in 1..Len(sortedPositive(result))}
         \cup {sortedNegative(result)[i] : i \in 1..Len(sortedNegative(result))}

\* the input card is rendered and enabled whatever `loading` is
InputCardShown == Falsy(result)

\* {!result && ...} with disabled={loading} on the textarea, the file input
\* and the Analyze button
InputCardEnabled == Falsy(result) /\ ~loading

\* onChange={e => setInput(e.target.value)}
SetInput(text) ==
    /\ InputCardEnabled
    /\ input' = text
    /\ event' = Happened("other", Undefined)
    /\ UNCHANGED <<lang, fileName, result, loading, error, storedReviews, modal,
                   langMenuOpen, pending, posted, resultBatch, server>>

\* handleFile
HandleFile(name) ==
    /\ InputCardEnabled
    /\ fileName' = name
    /\ event' = Happened("other", Undefined)
    /\ UNCHANGED <<lang, input, result, loading, error, storedReviews, modal,
                   langMenuOpen, pending, posted, resultBatch, server>>

\* onClick={() => setLangMenuOpen((v) => !v)}
ToggleLangMenu ==
    /\ Mounted
    /\ langMenuOpen' = ~langMenuOpen
    /\ event' = Happened("other", Undefined)
    /\ UNCHANGED <<lang, input, fileName, result, loading, error, storedReviews, modal,
                   pending, posted, resultBatch, server>>

\* onClick={() => { setLang(option.value); setLangMenuOpen(false); }}
SetLang(l) ==
    /\ Mounted
    /\ langMenuOpen
    /\ lang' = l
    /\ langMenuOpen' = FALSE
    /\ event' = Happened("other", Undefined)
    /\ UNCHANGED <<input, fileName, result, loading, error, storedReviews, modal,
                   pending, posted, resultBatch, server>>

\* handleAnalyze up to its return or to the fetch it waits for
HandleAnalyze ==
    /\ InputCardEnabled
    /\ result' = Null
    /\ storedReviews' = reviewsArr(input)
    /\ event' = Happened("analyze", Undefined)
    /\ IF reviewsArr(input) = <<>>
       THEN /\ error' = Str(<<"No reviews found.">>)
            /\ loading' = FALSE
            /\ UNCHANGED <<pending, posted>>
       ELSE /\ posted < MaxAnalyses
            /\ error' = Null
            /\ loading' = TRUE
            \* body: JSON.stringify({ reviews: reviewsArr, locale: lang })
            /\ pending' = Append(pending, [batch |-> reviewsArr(input), locale |-> lang,
                                           stage |-> "fetch", res |-> Undefined])
            /\ posted' = posted + 1
    /\ UNCHANGED <<lang, input, fileName, modal, langMenuOpen, resultBatch, server>>

\* a catch block without the finally after it
CaughtStillLoading(i, message) ==
    /\ error' = Str(IF message = <<>> THEN <<"Failed to analyze reviews.">> ELSE message)
    /\ pending' = RemoveAt(pending, i)
    /\ event' = Happened("failed", Undefined)
    /\ UNCHANGED <<result, resultBatch, loading>>

\* catch (err) { setError(err.message || ...) } finally { setLoading(false) }
Caught(i, message) ==
    /\ error' = Str(IF message = <<>> THEN <<"Failed to analyze reviews.">> ELSE message)
    /\ loading' = FALSE
    /\ pending' = RemoveAt(pending, i)
    /\ event' = Happened("failed", Undefined)
    /\ UNCHANGED <<result, resultBatch>>

\* the fetch of the i-th waiting call settles: it rejects, or resolves with res
FetchSettles(i, res) ==
    /\ i \in 1..Len(pending)
    /\ pending[i].stage = "fetch"
    /\ IF res.kind = "rejected"
       THEN Caught(i, res.message)
       ELSE /\ pending' = [pending EXCEPT ![i] = [batch |-> pending[i].batch,
                                                  locale |-> pending[i].locale,
                                                  stage |-> "json", res |-> res]]
            /\ event' = Happened("other", Undefined)
            /\ UNCHANGED <<result, resultBatch, loading, error>>
    /\ UNCHANGED <<lang, input, fileName, storedReviews, modal, langMenuOpen, posted,
                   server>>

\* data.error || 'Unknown error', as the message of the Error thrown
\* (reading data.error throws a TypeError when data is null)
ErrorMessage(data) ==
    IF data = Null THEN <<"Cannot read properties of null (reading 'error')">>
    ELSE IF Falsy(Get(data, errorKey)) THEN <<"Unknown error">>
    ELSE TemplateString(Get(data, errorKey))

\* lines 76-83: res.json() of the i-th waiting call settles
ReadSettles(i) ==
    /\ i \in 1..Len(pending)
    /\ pending[i].stage = "json"
    /\ IF ~pending[i].res.json THEN Caught(i, pending[i].res.message)
       ELSE IF ~pending[i].res.ok THEN Caught(i, ErrorMessage(pending[i].res.data))
       ELSE /\ result' = pending[i].res.data
            /\ resultBatch' = pending[i].batch
            /\ loading' = FALSE
            /\ pending' = RemoveAt(pending, i)
            /\ event' = Happened("succeeded", Undefined)
            /\ UNCHANGED error
    /\ UNCHANGED <<lang, input, fileName, storedReviews, modal, langMenuOpen, posted,
                   server>>

\* handleBack, from the button of the result view ({result && ...})
HandleBack ==
    /\ Mounted
    /\ ~Falsy(result)
    /\ result' = Null
    /\ error' = Null
    /\ input' = <<>>
    /\ fileName' = <<>>
    /\ event' = Happened("other", Undefined)
    /\ UNCHANGED <<lang, loading, storedReviews, modal, langMenuOpen, pending, posted,
                   resultBatch, server>>

\* handleKeywordClick
HandleKeywordClick(keywordObj) ==
    /\ keywordObj \in Cards
    /\ event' = Happened("click", keywordObj)
    /\ IF Falsy(result) \/ Falsy(Get(result, keywords)) \/ ~IsArray(Get(result, keywords))
       THEN UNCHANGED modal
       ELSE IF \/ Falsy(Get(keywordObj, reviewIndicesKey))
               \/ ~IsArray(Get(keywordObj, reviewIndicesKey))
       THEN UNCHANGED modal
       ELSE /\ selectedKeyword' = Get(keywordObj, <<"keyword">>)
            /\ selectedReviews' =
                   reviewsToShow(Get(keywordObj, reviewIndicesKey).a, storedReviews)
            /\ selectedSentiment' = Get(keywordObj, sentimentKey)
            /\ modalOpen' = TRUE
    /\ UNCHANGED <<lang, input, fileName, result, loading, error, storedReviews,
                   langMenuOpen, pending, posted, resultBatch, server>>

\* setModalOpen(false): the close button, the overlay, the Escape key
CloseModal ==
    /\ Mounted
    /\ modalOpen
    /\ modalOpen' = FALSE
    /\ event' = Happened("other", Undefined)
    /\ UNCHANGED <<lang, input, fileName, result, loading, error, storedReviews,
                   selectedKeyword, selectedReviews, selectedSentiment,
                   langMenuOpen, pending, posted, resultBatch, server>>

\* the texts written into the textarea
Inputs ==
    { <<" ", "\n", " ", " ", "\n">>,
      <<"great">>,
      <<" ", "great", " ", "phone", " ", "\n", "\n", "bad", "\n", " ">> }

FileNames == {<<"reviews", ".", "csv">>}

KeywordWith(word, label, count, indicesMember) ==
    ObjectText(<< Member(<<"keyword">>, Quoted(<<word>>)),
                  Member(<<"sentiment">>, Quoted(<<label>>)),
                  Member(<<"count">>, NatToString(count)) >> \o indicesMember)

PayloadText(ks) ==
    ObjectText(<< Member(totalCount, <<"2">>), Member(positiveCount, <<"1">>),
                  Member(negativeCount, <<"1">>), Member(keywords, ArrayText(ks)) >>)

\* model texts answering a request of the page
PageTexts ==
    { PayloadText(<<KeywordText("design", "positive", 2, <<<<"0">>, <<"1">>>>),
                    KeywordText("delivery", "negative", 3,
                                <<<<"5">>, <<"1">>, <<"-", "1">>, <<"1", ".", "5">>, <<"0">>>>),
                    KeywordText("screen", "positive", 1, <<Quoted(<<"length">>), <<"0">>>>),
                    KeywordWith("price", "positive", 2,
                                <<Member(reviewIndicesKey, Quoted(<<"none">>))>>),
                    KeywordWith("box", "negative", 1, <<>>)>>),
      ObjectText(<<Member(totalCount, <<"1">>), Member(positiveCount, <<"1">>)>>),
      ObjectText(<<Member(positiveCount, ObjectText(<<>>)), Member(keywords, ArrayText(<<>>))>>),
      ObjectText(<<Member(keywords, ArrayText(<<<<"null">>>>))>>),
      ObjectText(<<Member(keywords,
                          ArrayText(<<ObjectText(<<Member(<<"sentiment">>,
                                                          Quoted(<<"positive">>))>>)>>))>>),
      <<"I", " ", "cannot", " ", "help", ".">> }

PageCompletions ==
    {[kind |-> "content", text |-> t, message |-> <<>>] : t \in PageTexts}
    \cup {[kind |-> "rejected", text |-> <<>>, message |-> <<>>]}

\* model texts and completions answering the stage-1 call of a request of the page
PageStage1Texts ==
    { ObjectText(<<Member(sentimentsKey, ArrayText(<<Quoted(<<"positive">>)>>))>>),
      ObjectText(<<Member(sentimentsKey,
                          ArrayText(<<Quoted(<<"positive">>), Quoted(<<"negative">>)>>))>>),
      <<"I", " ", "cannot", " ", "help", ".">> }

PageStage1Completions ==
    {[kind |-> "content", text |-> t, message |-> <<>>] : t \in PageStage1Texts}
    \cup {[kind |-> "rejected", text |-> <<>>, message |-> <<>>],
          [kind |-> "no choices", text |-> <<>>, message |-> <<>>]}

\* the response of a final stage: lines 127-131 and 154-158
Answer(r, fallback) ==
    IF r.threw THEN JsonResponse(ErrorBody(MessageOr(r.message, fallback)), 500)
    ELSE JsonResponse(r.json, 200)

\* lines 75-131: the responses after the outcome r1 of stage 1
TwoPassAnswers(r1) ==
    IF r1.threw
    THEN {JsonResponse(ErrorBody(MessageOr(r1.message, <<"OpenAI sentiment step error">>)),
                       500)}
    ELSE {Answer(KeywordTry(c), <<"OpenAI keyword step error">>) : c \in PageCompletions}

\* the responses of POST to a request of the page: its body is readable and
\* its batch is a non-empty sequence of strings
Answers(batch, l) ==
    {JsonResponse(ErrorBody(<<"OpenAI API key not set.">>), 500)}
    \cup (IF l = "ko"
          THEN UNION {TwoPassAnswers(Stage1Try(c, Arr(batch))) : c \in PageStage1Completions}
          ELSE {Answer(FinalTry(c, <<"No JSON in OpenAI response">>), <<"OpenAI error">>) :
                   c \in PageCompletions})

\* the body of a response that is not from POST (an error page on the way)
GatewayPage == <<"<", "html", ">">>

\* what `await fetch(...)` can do: reject, resolve with a response of POST, or
\* resolve with an error response that is not from POST, its body an error
\* page (res.json() rejects with the SyntaxError of JSON.parse, here in the
\* words of V8) or the JSON text null
FetchOutcomes(batch, l) ==
    {[kind |-> "rejected", message |-> <<"Failed to fetch">>, ok |-> FALSE,
      json |-> FALSE, data |-> Undefined],
     [kind |-> "resolved", message |-> SyntaxErrorMessage(GatewayPage, JSONparse(GatewayPage)),
      ok |-> FALSE, json |-> FALSE, data |-> Undefined],
     [kind |-> "resolved", message |-> <<>>, ok |-> FALSE, json |-> TRUE, data |-> Null]}
    \cup {[kind |-> "resolved", message |-> <<>>, ok |-> r.status \in 200..299,
           json |-> TRUE, data |-> r.body] : r \in Answers(batch, l)}

\* the page alone: the handler is not running
ClientInit ==
    /\ PageInit
    /\ apiKey = TRUE
    /\ body = RequestBody("batch", 1, LocaleValues[2])
    /\ pc = "start"
    /\ sentiments = Arr(<<>>)
    /\ sent = <<>>
    /\ received = <<>>
    /\ failed = "none"
    /\ response = NoResponse
    /\ focus = 1
    /\ suspended = <<Running>>
    /\ submitted = <<body>>

ClientNext ==
    \/ \E text \in Inputs : SetInput(text)
    \/ \E name \in FileNames : HandleFile(name)
    \/ ToggleLangMenu
    \/ \E l \in {"en", "ko"} : SetLang(l)
    \/ HandleAnalyze
    \/ \E i \in 1..Len(pending) : \E res \in FetchOutcomes(pending[i].batch, pending[i].locale) :
           FetchSettles(i, res)
    \/ \E i \in 1..Len(pending) : ReadSettles(i)
    \/ HandleBack
    \/ \E keywordObj \in Cards : HandleKeywordClick(keywordObj)
    \/ CloseModal

SpecClient == ClientInit /\ [][ClientNext]_vars

----------------------------------------------------------------------------
(* Properties *)

Ended == pc \in {"done", "thrown"}
Success == response.status = 200
Failure == response.status \in {400, 500}

ResultFields == {totalCount, positiveCount, negativeCount, positive, negative, keywords}

\* the request was read and carries a non-empty batch
ValidBatch == body.ok /\ ~InvalidBatch(reviews)

\* the text of the i-th completion consumed, as the handler reads it
TextOf(i) == IF received[i].kind = "content" THEN received[i].text ELSE <<>>

\* the payload the final stage parsed, in a state that ended in success
FinalPayload == Extract(TextOf(Len(received))).v

\* a number of the response body within [lo, hi]
Within(x, lo, hi) == x.t = "num" /\ lo * x.d <= x.n /\ x.n <= hi * x.d

\* C1: a request with a non-empty batch ends either in a success response that
\* has all of totalCount, positiveCount, negativeCount, positive, negative and
\* keywords, or in a failure response; never in a success lacking a field.
C1_SuccessHasAllFields ==
    (ValidBatch /\ pc = "done") =>
        \/ Success /\ \A f \in ResultFields : Has(response.body, f)
        \/ Failure

\* C2: in every success response positive and negative are numbers, never NaN
\* (which the response carries as null) and never absent.
C2_PercentagesAreNumbers ==
    Success => /\ Get(response.body, positive).t = "num"
               /\ Get(response.body, negative).t = "num"

\* C3: every request that ends has a success response or a failure response
\* whose error is a non-empty string and which has no AnalysisResult field.
C3_FailureCarriesError ==
    Ended =>
        \/ Success
        \/ /\ Failure
           /\ Get(response.body, errorKey).t = "str"
           /\ Get(response.body, errorKey).s \notin {<<>>, <<"">>}
           /\ \A f \in ResultFields : ~Has(response.body, f)

\* the handled failures do carry such an error: only the unhandled throw breaks C3
HandledFailureCarriesError ==
    Failure => /\ Get(response.body, errorKey).t = "str"
               /\ Get(response.body, errorKey).s \notin {<<>>, <<"">>}
               /\ \A f \in ResultFields : ~Has(response.body, f)

\* C4: when the credentials are absent, or the batch is missing, not a sequence
\* or empty, no inference call is ever made and the request ends in a failure
\* response.
C4_RejectedWithoutInference ==
    (~apiKey \/ InvalidBatch(reviews)) =>
        /\ sent = <<>>
        /\ Ended => Failure

\* the part of C4 that the code keeps: no inference call in those cases
NoInferenceWhenRejected == (~apiKey \/ InvalidBatch(reviews)) => sent = <<>>

\* the stage-1 payload of a two-pass request carries a sequence `sentiments`
Stage1Sequence ==
    /\ body.ok /\ TwoPass /\ Len(received) >= 1
    /\ Extract(TextOf(1)).kind = "value"
    /\ IsArray(Get(Extract(TextOf(1)).v, sentimentsKey))

Stage1Labels == Get(Extract(TextOf(1)).v, sentimentsKey)

MismatchResponse == JsonResponse(ErrorBody(<<"Sentiment array length mismatch">>), 500)

\* C5: in the two-pass strategy a stage-1 sentiment sequence whose length
\* differs from the batch length ends the request in the length-mismatch
\* failure; the stage-2 call is never made and the sequence is kept as received.
C5_LengthMismatchFails ==
    (Stage1Sequence /\ Len(Stage1Labels.a) # Len(reviews.a)) =>
        /\ pc = "done"
        /\ failed = "stage1"
        /\ response = MismatchResponse
        /\ Len(sent) = 1
        /\ sent[1].stage = "stage1"
        /\ sentiments = Stage1Labels

\* a sequence longer than the batch was received and rejected
C5_Witness ==
    /\ Stage1Sequence
    /\ Len(Stage1Labels.a) > Len(reviews.a)
    /\ response = MismatchResponse

IsLabel(x) == x = Str(<<"positive">>) \/ x = Str(<<"negative">>)

\* C6: in the two-pass strategy stage 2 is called only when every element of
\* the stage-1 sentiment sequence is one of the labels positive and negative.
C6_OnlyLabelsAccepted ==
    (Len(sent) >= 2) => \A i \in 1..Len(sentiments.a) : IsLabel(sentiments.a[i])

\* the percentage the response must carry for an invalid field: count / total *
\* 100 when total > 0 (NaN, sent as null, when the count is no number), else 0
FallbackHolds(out, count, total) ==
    IF GreaterThanZero(total)
    THEN IF ToNumber(count).t = "nan" THEN out.t = "null"
         ELSE /\ out.t = "num"
              /\ out.n * ToNumber(count).d * ToNumber(total).n
                    = out.d * ToNumber(count).n * ToNumber(total).d * 100
    ELSE out = Num(0, 1)

\* out carries the fallback for each percentage that payload has no number for
PercentagesFallBack(payload, out) ==
    /\ NotANumber(Get(payload, positive)) =>
          FallbackHolds(Get(out, positive),
                        Get(payload, positiveCount), Get(payload, totalCount))
    /\ NotANumber(Get(payload, negative)) =>
          FallbackHolds(Get(out, negative),
                        Get(payload, negativeCount), Get(payload, totalCount))
    /\ ( /\ NotANumber(Get(payload, positive))
         /\ Get(payload, positiveCount) = Num(3, 1)
         /\ Get(payload, totalCount) = Num(4, 1) )
          => Get(out, positive) = Num(75, 1)
    /\ Get(payload, totalCount) = Num(0, 1) =>
          /\ NotANumber(Get(payload, positive)) => Get(out, positive) = Num(0, 1)
          /\ NotANumber(Get(payload, negative)) => Get(out, negative) = Num(0, 1)

\* C7: when the parsed payload's positive (negative) field is absent, not a
\* number or NaN, the success response carries positiveCount / totalCount * 100
\* (negativeCount / totalCount * 100) if totalCount > 0 and 0 otherwise, in the
\* two-pass and in the single-pass path alike; positiveCount 3 of totalCount 4
\* gives 75.
C7_PercentageFallback == Success => PercentagesFallBack(FinalPayload, response.body)

\* a two-pass request whose stage-2 payload reports 3 of 4 and no percentage
C7_Witness ==
    /\ Success /\ TwoPass
    /\ ~Has(FinalPayload, positive)
    /\ Get(FinalPayload, positiveCount) = Num(3, 1)
    /\ Get(FinalPayload, totalCount) = Num(4, 1)
    /\ Get(response.body, positive) = Num(75, 1)

\* the text has a "{" with a "}" somewhere after it
HasSpan(text) ==
    \E i, j \in 1..Len(text) : i < j /\ text[i] = "{" /\ text[j] = "}"

\* from the first "{" of the whole text to its last "}"
OuterSpan(text) ==
    SubSeq(text,
           CHOOSE i \in 1..Len(text) :
               text[i] = "{" /\ \A k \in 1..(i - 1) : text[k] # "{",
           CHOOSE j \in 1..Len(text) :
               text[j] = "}" /\ \A k \in (j + 1)..Len(text) : text[k] # "}")

Extractable(text) == HasSpan(text) /\ JSONparse(OuterSpan(text)).ok

SpanPayload(text) == JSONparse(OuterSpan(text)).v

\* the request failed in the stage that consumed the i-th completion
FailedInStage(i) ==
    /\ pc = "done" /\ Failure /\ failed = sent[i].stage /\ Len(received) = i

\* C8: of every model text the handler parses exactly the span from the first
\* "{" to the last "}"; a text without such a span, or whose span is not valid
\* JSON, fails the request in that stage; otherwise the payload of that span,
\* whatever prose surrounds it, is what the stage goes on with.
C8_OuterSpanExtraction ==
    \A i \in 1..Len(received) :
        IF received[i].kind # "content" THEN FailedInStage(i)
        ELSE IF ~Extractable(received[i].text) THEN FailedInStage(i)
        ELSE IF sent[i].stage = "stage1"
             THEN IF IsArray(Get(SpanPayload(received[i].text), sentimentsKey))
                  THEN sentiments = Get(SpanPayload(received[i].text), sentimentsKey)
                  ELSE FailedInStage(i)
        ELSE response = JsonResponse(Normalize(SpanPayload(received[i].text)), 200)

\* a payload with nested objects, wrapped in prose on both sides, was returned
C8_Witness ==
    /\ Success
    /\ Head(TextOf(Len(received))) = "Sure"
    /\ TextOf(Len(received))[Len(TextOf(Len(received)))] = "."
    /\ IsArray(Get(response.body, keywords))
    /\ Len(Get(response.body, keywords).a) = 2
    /\ Get(response.body, totalCount) = Num(2, 1)

\* C9: in every success response positive and negative lie in [0, 100].
C9_PercentagesInRange ==
    Success => /\ Within(Get(response.body, positive), 0, 100)
               /\ Within(Get(response.body, negative), 0, 100)

\* C10: a single-pass request makes at most one inference call and a two-pass
\* request at most two, one per stage; a call is made only after the previous
\* completion was consumed, and none after a stage has failed.
C10_OneCallPerStage ==
    /\ Len(sent) <= IF TwoPass THEN 2 ELSE 1
    /\ \A i, j \in 1..Len(sent) : i < j => sent[i].stage # sent[j].stage
    /\ Len(sent) <= Len(received) + 1
    /\ failed \in {"request", "unhandled"} => sent = <<>>
    /\ failed \in {"stage1", "single"} => Len(sent) = 1
    /\ failed = "stage2" => Len(sent) = 2
    /\ failed # "none" => Len(received) = Len(sent)

\* a two-pass request made its two calls and failed in stage 2
C10_Witness ==
    /\ pc = "done" /\ TwoPass
    /\ Len(sent) = 2 /\ sent[1].stage = "stage1" /\ sent[2].stage = "stage2"
    /\ failed = "stage2"

\* the request was read, has credentials and a non-empty batch: a strategy runs
Accepted == ValidBatch /\ apiKey

\* the locale of the request is exactly the string ko
LocaleIsKo ==
    /\ body.ok
    /\ Has(body.v, <<"locale">>)
    /\ Get(body.v, <<"locale">>) = Str(<<"ko">>)

TwoPassSteps == {"stage1", "stage2"}
SinglePassSteps == {"single"}

\* C11: the strategy of a request is fixed by its locale alone: with locale ko
\* every step and every inference call belongs to the two-pass sequence, with
\* any other locale (or none) to the single-pass sequence; an accepted request
\* runs its strategy, and a stage-1 failure ends the request after the stage-1
\* call alone, without a single-pass call.
C11_StrategyByLocale ==
    /\ \A i \in 1..Len(sent) :
          sent[i].stage \in (IF LocaleIsKo THEN TwoPassSteps ELSE SinglePassSteps)
    /\ pc \in TwoPassSteps => LocaleIsKo
    /\ pc \in SinglePassSteps => ~LocaleIsKo
    /\ failed \in TwoPassSteps => LocaleIsKo
    /\ failed \in SinglePassSteps => ~LocaleIsKo
    /\ (Accepted /\ pc # "start") =>
          /\ Len(sent) >= 1
          /\ sent[1].stage = (IF LocaleIsKo THEN "stage1" ELSE "single")
    /\ failed = "stage1" => /\ pc = "done"
                            /\ Len(sent) = 1
                            /\ sent[1].stage = "stage1"

\* a two-pass request failed in stage 1 and ended with its one call
C11_Witness ==
    /\ LocaleIsKo /\ pc = "done" /\ failed = "stage1"
    /\ Len(sent) = 1 /\ Len(received) = 1

\* a request with another locale string ran the single-pass sequence
C11_WitnessOther ==
    /\ body.ok /\ Get(body.v, <<"locale">>) = Str(<<"KO">>)
    /\ pc = "done" /\ Success /\ sent[1].stage = "single"

\* the counts of a keyword sequence never increase from one element to the next
Descending(ks) ==
    \A i, j \in 1..Len(ks) :
        i < j => ~Exceeds(ToNumber(Get(ks[j], countKey)), ToNumber(Get(ks[i], countKey)))

\* C12: in every success response whose keywords is a sequence, the keywords of
\* each sentiment appear in descending order of count.
C12_ResponseKeywordsRanked ==
    (Success /\ IsArray(Get(response.body, keywords))) =>
        /\ Descending(WithSentiment(Get(response.body, keywords).a, "positive"))
        /\ Descending(WithSentiment(Get(response.body, keywords).a, "negative"))

\* every keyword of the sequence has a number as its count
NumericCounts(ks) == \A i \in 1..Len(ks) : Get(ks[i], countKey).t = "num"

\* each card lists exactly the response's keywords of its sentiment, in
\* descending order of count
CardsRanked ==
    /\ Descending(sortedPositive(response.body))
    /\ Descending(sortedNegative(response.body))
    /\ Len(sortedPositive(response.body))
          = Len(WithSentiment(Get(response.body, keywords).a, "positive"))
    /\ \A i \in 1..Len(sortedPositive(response.body)) :
          \E j \in 1..Len(Get(response.body, keywords).a) :
              sortedPositive(response.body)[i] = Get(response.body, keywords).a[j]

\* the order the page renders is ranked when every count is a number
RenderedKeywordsRanked ==
    ( /\ Success /\ IsArray(Get(response.body, keywords))
      /\ NumericCounts(Get(response.body, keywords).a) ) => CardsRanked

\* the same whatever the counts are: a count that is no number makes the
\* comparator return NaN, and the sort leaves 5 before 8 around it
RenderedKeywordsRankedAnyCount ==
    (Success /\ IsArray(Get(response.body, keywords))) => CardsRanked

\* the model emitted price (5) before design (8) and the page lists design first
RenderedWitness ==
    /\ Success /\ IsArray(Get(response.body, keywords))
    /\ Len(sortedPositive(response.body)) = 2
    /\ Get(sortedPositive(response.body)[1], countKey) = Num(8, 1)
    /\ Get(Get(response.body, keywords).a[1], countKey) = Num(5, 1)

\* x is an integer with lo <= x < hi
IndexWithin(x, lo, hi) == x.t = "num" /\ x.d = 1 /\ lo <= x.n /\ x.n < hi

\* the reviewIndices of the k-th keyword of the response, <<>> if it has none
IndicesOf(k) ==
    IF IsArray(Get(Get(response.body, keywords).a[k], reviewIndicesKey))
    THEN Get(Get(response.body, keywords).a[k], reviewIndicesKey).a
    ELSE <<>>

\* C13: in every success response every index of every keyword's reviewIndices
\* is at least 0, below totalCount, and an index of the submitted batch.
C13_IndicesWithinBatch ==
    (Success /\ IsArray(Get(response.body, keywords))) =>
        \A k \in 1..Len(Get(response.body, keywords).a) :
            \A i \in 1..Len(IndicesOf(k)) :
                /\ IndexWithin(IndicesOf(k)[i], 0, Len(reviews.a))
                /\ Get(response.body, totalCount).t = "num"
                /\ Exceeds(Get(response.body, totalCount), IndicesOf(k)[i])

\* C14: in every success response totalCount, positiveCount and negativeCount
\* are numbers and totalCount = positiveCount + negativeCount.
C14_CountsAddUp ==
    Success =>
        /\ Get(response.body, totalCount).t = "num"
        /\ Get(response.body, positiveCount).t = "num"
        /\ Get(response.body, negativeCount).t = "num"
        /\ Get(response.body, totalCount).n
              * Get(response.body, positiveCount).d * Get(response.body, negativeCount).d
           = Get(response.body, totalCount).d
              * ( Get(response.body, positiveCount).n * Get(response.body, negativeCount).d
                  + Get(response.body, negativeCount).n * Get(response.body, positiveCount).d )

\* the same for the responses whose three counts are all numbers
CountsAddUpWhenNumbers ==
    ( /\ Success
      /\ Get(response.body, totalCount).t = "num"
      /\ Get(response.body, positiveCount).t = "num"
      /\ Get(response.body, negativeCount).t = "num" ) =>
        Get(response.body, totalCount).n
              * Get(response.body, positiveCount).d * Get(response.body, negativeCount).d
           = Get(response.body, totalCount).d
              * ( Get(response.body, positiveCount).n * Get(response.body, negativeCount).d
                  + Get(response.body, negativeCount).n * Get(response.body, positiveCount).d )

\* the keys of the members of an object
KeysOf(obj) == {obj.o[i].k : i \in 1..Len(obj.o)}

\* member f is in the object out exactly as the object payload has it
Unchanged(payload, out, f) ==
    /\ Has(out, f) = Has(payload, f)
    /\ Get(out, f) = Get(payload, f)

\* out is payload with nothing changed but an invalid positive or negative
FrameHolds(payload, out) ==
    /\ \A f \in KeysOf(payload) \ {positive, negative} : Unchanged(payload, out, f)
    /\ \A f \in {totalCount, positiveCount, negativeCount, keywords} :
          Unchanged(payload, out, f)
    /\ KeysOf(out) = KeysOf(payload) \cup {positive, negative}
    /\ Get(payload, positive).t = "num" => Unchanged(payload, out, positive)
    /\ Get(payload, negative).t = "num" => Unchanged(payload, out, negative)

\* C15: a success response carries every member of the parsed payload other
\* than positive and negative unchanged (totalCount, positiveCount,
\* negativeCount and keywords among them) and adds no member but positive and
\* negative; a positive or negative that the payload reports as a number is
\* returned as reported, whatever the counts and the other percentage say.
C15_NormalizerFrame == Success => FrameHolds(FinalPayload, response.body)

\* the payload reported positive 75 with 1 positive review of 4, and 75 it stayed
C15_Witness ==
    /\ Success
    /\ Get(FinalPayload, positive) = Num(75, 1)
    /\ Get(FinalPayload, positiveCount) = Num(1, 1)
    /\ Get(FinalPayload, totalCount) = Num(4, 1)
    /\ Get(response.body, positive) = Num(75, 1)
    /\ Get(response.body, positiveCount) = Num(1, 1)
    /\ Get(response.body, totalCount) = Num(4, 1)

\* a string that is not empty and has no blank at either end
TrimmedString(x) ==
    /\ x.t = "str"
    /\ x.s # <<>>
    /\ Head(x.s) \notin {" ", "\n"}
    /\ x.s[Len(x.s)] \notin {" ", "\n"}

\* C16: an inference call is made only for a batch whose every element is a
\* non-empty trimmed string; with credentials present any other batch is
\* rejected as invalid (status 400) without a call.
C16_BatchOfTrimmedStrings ==
    /\ sent # <<>> => \A i \in 1..Len(reviews.a) : TrimmedString(reviews.a[i])
    /\ ( /\ pc = "done" /\ apiKey /\ body.ok /\ IsArray(reviews)
         /\ \E i \in 1..Len(reviews.a) : ~TrimmedString(reviews.a[i]) )
          => response.status = 400

ConfigError == JsonResponse(ErrorBody(<<"OpenAI API key not set.">>), 500)
ClientError == JsonResponse(ErrorBody(<<"No reviews provided.">>), 400)

\* the request body was read and is one that can be destructured
Readable == body.ok /\ body.v.t \notin {"null", "undefined"}

\* C17: a request without credentials ends in the configuration error, also
\* when its batch is missing, empty or invalid; with credentials a missing,
\* empty or invalid batch ends in the client error (status 400); a failure of
\* an inference call, of extraction or of validation ends in a status 500.
C17_FailuresClassified ==
    /\ (Ended /\ ~apiKey) => response = ConfigError
    /\ (Ended /\ apiKey /\ InvalidBatch(reviews)) => response = ClientError
    /\ failed \in {"stage1", "stage2", "single"} =>
          /\ response.status = 500
          /\ response # ConfigError

\* the same for the requests whose body can be read and destructured
ReadableFailuresClassified ==
    Readable =>
        /\ (Ended /\ ~apiKey) => response = ConfigError
        /\ (Ended /\ apiKey /\ InvalidBatch(reviews)) => response = ClientError
        /\ failed \in {"stage1", "stage2", "single"} =>
              /\ response.status = 500
              /\ response # ConfigError

\* what an invocation has done and returned, as the locals it is left with
Outcome(at, labels, calls, where, resp) ==
    [pc |-> at, sentiments |-> labels, sent |-> calls, failed |-> where, response |-> resp]

\* the final stage, run on completion c after the calls `calls`
AloneFinal(r, stage, fallback, labels, calls) ==
    IF r.threw
    THEN Outcome("done", labels, calls, stage,
                 JsonResponse(ErrorBody(MessageOr(r.message, fallback)), 500))
    ELSE Outcome("done", labels, calls, "none", JsonResponse(r.json, 200))

\* the two-pass sequence on the completions rec, r1 being the outcome of stage 1
AloneTwoPass(r1, rec) ==
    IF r1.threw
    THEN Outcome("done", r1.labels, <<SentimentCall>>, "stage1",
                 JsonResponse(ErrorBody(MessageOr(r1.message, <<"OpenAI sentiment step error">>)),
                              500))
    ELSE IF Len(rec) = 1
    THEN Outcome("stage2", r1.labels, <<SentimentCall, KeywordCall(r1.labels)>>,
                 "none", NoResponse)
    ELSE AloneFinal(KeywordTry(rec[2]),
                    "stage2", <<"OpenAI keyword step error">>,
                    r1.labels, <<SentimentCall, KeywordCall(r1.labels)>>)

\* the request of the running invocation handled alone, from its start up to
\* the completions rec it has consumed
Alone(rec) ==
    IF ~Readable THEN Outcome("thrown", Arr(<<>>), <<>>, "unhandled", NoResponse)
    ELSE IF ~apiKey THEN Outcome("done", Arr(<<>>), <<>>, "request", ConfigError)
    ELSE IF InvalidBatch(reviews) THEN Outcome("done", Arr(<<>>), <<>>, "request", ClientError)
    ELSE IF Get(body.v, <<"locale">>) = Str(<<"ko">>)
    THEN IF rec = <<>>
         THEN Outcome("stage1", Arr(<<>>), <<SentimentCall>>, "none", NoResponse)
         ELSE AloneTwoPass(Stage1Try(rec[1], reviews), rec)
    ELSE IF rec = <<>>
    THEN Outcome("single", Arr(<<>>), <<SingleCall>>, "none", NoResponse)
    ELSE AloneFinal(FinalTry(rec[1], <<"No JSON in OpenAI response">>),
                    "single", <<"OpenAI error">>, Arr(<<>>), <<SingleCall>>)

\* C18: however the invocations interleave at their awaits, each one works on
\* the request it was called with, and its calls, its stage-1 sentiments and
\* its response are those of that request handled alone with the same
\* completions; the sentiment list of its stage-2 prompt is its own stage-1
\* output.
C18_NoInterference ==
    /\ body = submitted[focus]
    /\ \A r \in DOMAIN suspended : r # focus => suspended[r].body = submitted[r]
    /\ pc = "start" => Frame = NewFrame(submitted[focus])
    /\ pc # "start" =>
          Outcome(pc, sentiments, sent, failed, response) = Alone(received)
    /\ Len(sent) = 2 =>
          /\ sent[2].sentimentList = NumberedList(Stage1Labels.a, 1)
          /\ sent[2].reviewList = NumberedList(Get(submitted[focus].v, <<"reviews">>).a, 1)

\* an invocation that waits is not touched by the steps of the others
SuspendedUntouched ==
    [][\A r \in DOMAIN suspended :
          (r # focus /\ r # focus') => suspended'[r] = suspended[r]]_vars

\* two two-pass requests with batches of different lengths are both past
\* stage 1 at the same time, and the running one has ended in success
C18_Witness ==
    /\ Len(suspended) = MaxRequests
    /\ focus = 1 /\ pc = "done" /\ Success /\ Len(sent) = 2
    /\ suspended[2].pc = "stage2"
    /\ Len(Get(submitted[1].v, <<"reviews">>).a) # Len(Get(submitted[2].v, <<"reviews">>).a)

\* the line of a prompt list for the item x under the number n
Entry(n, x) == NatToString(n) \o <<".", " ">> \o TemplateString(x)

\* the lines for items 1 .. k of a, numbered 1 .. k, one per line
RECURSIVE Listing(_, _)
Listing(a, k) ==
    IF k = 0 THEN <<>>
    ELSE IF k = 1 THEN Entry(1, a[1])
    ELSE Listing(a, k - 1) \o <<"\n">> \o Entry(k, a[k])

\* the first completion carries a payload that passes stage-1 validation
Stage1Passed ==
    /\ Len(received) >= 1
    /\ received[1].kind = "content"
    /\ Extractable(received[1].text)
    /\ IsArray(Get(SpanPayload(received[1].text), sentimentsKey))
    /\ Len(Get(SpanPayload(received[1].text), sentimentsKey).a) = Len(reviews.a)

\* C19: in a two-pass request the stage-2 call is made only after the stage-1
\* call has returned a payload that passed extraction and validation, one call
\* being outstanding at a time; a stage-1 completion that fails any of these
\* ends the request with the stage-1 call alone; and the stage-2 prompt lists
\* review i and stage-1 sentiment i of every batch index i under the number
\* i + 1, in input order.
C19_TwoPassSequential ==
    /\ Len(sent) <= Len(received) + 1
    /\ pc = "stage1" => (Len(sent) = 1 /\ received = <<>>)
    /\ pc = "stage2" => (Len(sent) = 2 /\ Len(received) = 1)
    /\ Len(sent) = 2 =>
          /\ sent[1].stage = "stage1" /\ sent[2].stage = "stage2"
          /\ Stage1Passed
          /\ sentiments = Get(SpanPayload(received[1].text), sentimentsKey)
          /\ sent[2].reviewList = Listing(reviews.a, Len(reviews.a))
          /\ sent[2].sentimentList = Listing(sentiments.a, Len(reviews.a))
    /\ (Len(sent) >= 1 /\ sent[1].stage = "stage1" /\ Len(received) >= 1 /\ ~Stage1Passed) =>
          (pc = "done" /\ failed = "stage1" /\ Len(sent) = 1 /\ Failure)

\* a batch of two or more reviews with differing sentiments reached stage 2
C19_Witness ==
    /\ Len(sent) = 2 /\ Len(reviews.a) >= 2
    /\ sentiments.a[1] # sentiments.a[2]
    /\ sent[2].reviewList # sent[2].sentimentList

\* C20: provided every inference call returns or raises, every request
\* eventually ends in a success response or in a failure response, and once it
\* has ended no step of the handler takes place any more.
C20_EndsInSuccessOrFailure ==
    /\ <>(Ended /\ (Success \/ Failure))
    /\ [][~Ended]_vars

\* every request does end: by a response, or by the unhandled throw
EventuallyEnded == <>Ended

\* an ended request takes no further step, and a response once returned stays
EndedIsFinal == [][~Ended /\ response = NoResponse]_vars

\* every request whose body can be read and destructured ends in a success
\* response or in a failure response
ReadableEndsInSuccessOrFailure == Readable => <>(pc = "done" /\ (Success \/ Failure))

\* two runs of a final stage end alike: both fail, or both succeed with the
\* same payload
SameOutcome(a, b) == a.threw = b.threw /\ (~a.threw => a.json = b.json)

\* the response is the one a final stage with outcome r returns
Returned(r) ==
    IF r.threw THEN response.status = 500 /\ failed \in {"stage2", "single"}
    ELSE response = JsonResponse(r.json, 200) /\ failed = "none"

\* the request has consumed the completion of its last inference call
FinalStageRan ==
    /\ pc = "done" /\ Len(received) = Len(sent) /\ Len(sent) >= 1
    /\ sent[Len(sent)].stage \in {"stage2", "single"}

\* C21: on the raw completion of the last inference call the stage-2 path of
\* the two-pass strategy and the single-pass path end alike, in a failure in
\* the same cases and else in the same payload after the percentage fallback;
\* and that is the outcome the request has, whichever strategy it ran.
C21_FinalStagesEquivalent ==
    FinalStageRan =>
        /\ SameOutcome(KeywordTry(received[Len(received)]),
                       FinalTry(received[Len(received)], <<"No JSON in OpenAI response">>))
        /\ Returned(KeywordTry(received[Len(received)]))
        /\ Returned(FinalTry(received[Len(received)], <<"No JSON in OpenAI response">>))

\* a two-pass request succeeded on a payload without a negative percentage
C21_Witness ==
    /\ FinalStageRan /\ Success /\ sent[Len(sent)].stage = "stage2"
    /\ ~Has(FinalPayload, negative)
    /\ Get(FinalPayload, negativeCount) = Num(1, 1)
    /\ Get(FinalPayload, totalCount) = Num(2, 1)
    /\ Get(response.body, negative) = Num(50, 1)

\* an analysis has finished and nothing touched the page since
Finished ==
    \/ event.name \in {"failed", "succeeded"}
    \/ event.name = "analyze" /\ pending = <<>>

\* C22: loading is true while a call of handleAnalyze waits for its request
\* and false once it has finished, on every path; when it has finished exactly
\* one of result and error is non-null; and an analysis of an input without a
\* non-blank line ends at once with the error set and no request in flight.
C22_AnalyzeStateMachine ==
    /\ pending # <<>> => loading /\ result = Null /\ error = Null
    /\ pending = <<>> => ~loading
    /\ Finished => ((result = Null) # (error = Null))
    /\ (event.name = "analyze" /\ storedReviews = <<>>) =>
           /\ pending = <<>>
           /\ error = Str(<<"No reviews found.">>)
           /\ result = Null

\* an analysis ended on an HTTP error of the endpoint
C22_Witness ==
    /\ event.name = "failed"
    /\ error = Str(<<"OpenAI error">>)
    /\ result = Null /\ ~loading /\ pending = <<>> /\ posted >= 1

\* analyzing a text of blank lines only sets the error and sends nothing
C22_BlankWitness ==
    /\ event.name = "analyze" /\ input # <<>> /\ storedReviews = <<>>
    /\ error = Str(<<"No reviews found.">>) /\ posted = 0

\* C23: whenever a result is shown, the stored batch is the batch of the
\* request that produced it.
C23_StoredBatchIsAnalysedBatch ==
    result # Null => storedReviews = resultBatch /\ resultBatch # <<>>

\* a keyword of the second result is clicked, after a first analysis of
\* another batch and a change of language
C23_Witness ==
    /\ result # Null /\ posted >= 2 /\ lang = "ko"
    /\ event.name = "click"
    /\ Len(storedReviews) = 1 /\ storedReviews = resultBatch

ElementsAt(indices, batch) == [i \in 1..Len(indices) |-> batch[indices[i].n + 1]]

\* the elements of the batch at the indices that are in range, in their order
InRangeElements(indices, batch) ==
    ElementsAt(SelectSeq(indices, LAMBDA x : IndexWithin(x, 0, Len(batch))), batch)

\* the reviewIndices of the keyword clicked last
ClickedIndices == Get(event.arg, reviewIndicesKey)

\* C24: after a click on a keyword whose reviewIndices is a sequence, the
\* selected reviews are exactly the elements of the stored batch at the
\* in-range indices, 0-based, in the order of reviewIndices, and the modal is
\* open on that keyword.
C24_SelectedReviewsInRange ==
    (event.name = "click" /\ ~Falsy(ClickedIndices) /\ IsArray(ClickedIndices)) =>
        /\ selectedReviews = InRangeElements(ClickedIndices.a, storedReviews)
        /\ selectedKeyword = Get(event.arg, <<"keyword">>)
        /\ modalOpen

\* the same, for the keywords whose indices are all numbers
NumericIndicesResolved ==
    (/\ event.name = "click" /\ ~Falsy(ClickedIndices) /\ IsArray(ClickedIndices)
     /\ \A i \in 1..Len(ClickedIndices.a) : ClickedIndices.a[i].t = "num") =>
        /\ selectedReviews = InRangeElements(ClickedIndices.a, storedReviews)
        /\ selectedKeyword = Get(event.arg, <<"keyword">>)
        /\ modalOpen

\* out-of-range, negative and fractional indices were dropped by a click
NumericIndicesWitness ==
    /\ event.name = "click"
    /\ Get(event.arg, <<"keyword">>) = Str(<<"delivery">>)
    /\ Len(storedReviews) = 2
    /\ selectedReviews = <<storedReviews[2], storedReviews[1]>>

\* a click on a keyword whose reviewIndices is missing or not a sequence
\* leaves the modal state as it is
ClickWithoutIndicesKeepsModal ==
    [][(/\ event'.name = "click"
        /\ Falsy(Get(event'.arg, reviewIndicesKey))
              \/ ~IsArray(Get(event'.arg, reviewIndicesKey)))
       => UNCHANGED modal]_vars

====
